---- MODULE Spec2Model ----
(***************************************************************************)
(* Model of the docreader relay: the webhook ingestion handler             *)
(* (handleN8nWebhook), the bounded result history (responses, guarded by   *)
(* responsesMutex, trimmed to maxResponses), the retrieval handler         *)
(* (handleGetResults), the loader of maxResponses (initEnvVariables) and   *)
(* the handlers that do not touch the history (handleFileUpload with       *)
(* isValidFileType, handleHealthCheck, handleHome).                        *)
(*                                                                         *)
(* A Go string is modelled as a sequence of one-character strings, so      *)
(* that formatting, joining and prefix tests are computed and not assumed. *)
(***************************************************************************)
EXTENDS Integers, Sequences, FiniteSets, TLC

(***************************************************************************)
(* Bounds of the model.                                                    *)
(***************************************************************************)
MaxProcs == 2
MaxRequests == 3
MaxSeqRequests == 1
MaxClock == 1
MaxCapacity == 2

Procs == 1..MaxProcs

(***************************************************************************)
(* Strings.                                                                *)
(***************************************************************************)
NL == "\n"

Digits == <<"0", "1", "2", "3", "4", "5", "6", "7", "8", "9">>

RECURSIVE Itoa(_)
(* fmt's %d of a non-negative integer *)
Itoa(n) == IF n < 10 THEN <<Digits[n + 1]>>
           ELSE Itoa(n \div 10) \o <<Digits[(n % 10) + 1]>>

(* fmt's %d *)
FormatInt(n) == IF n < 0 THEN <<"-">> \o Itoa(0 - n) ELSE Itoa(n)

RECURSIVE Join(_, _)
(* strings.Join(parts, sep) *)
Join(parts, sep) ==
    IF Len(parts) = 0 THEN <<>>
    ELSE IF Len(parts) = 1 THEN parts[1]
    ELSE parts[1] \o sep \o Join(Tail(parts), sep)

(* strings.HasPrefix(s, prefix) *)
HasPrefix(s, prefix) ==
    /\ Len(s) >= Len(prefix)
    /\ SubSeq(s, 1, Len(prefix)) = prefix

(* the value of a decimal digit *)
DigitValue(c) == (CHOOSE i \in 1..Len(Digits) : Digits[i] = c) - 1

IsDigit(c) == \E i \in 1..Len(Digits) : Digits[i] = c

RECURSIVE ParseDigits(_, _)
(* the number that the digits of s write after acc *)
ParseDigits(s, acc) ==
    IF s = <<>> THEN acc
    ELSE ParseDigits(Tail(s), 10 * acc + DigitValue(Head(s)))

(* strconv.Atoi(s): an optional sign and at least one decimal digit *)
Atoi(s) ==
    LET signed == s # <<>> /\ Head(s) \in {"+", "-"}
        digits == IF signed THEN Tail(s) ELSE s
    IN  IF digits = <<>> \/ \E i \in 1..Len(digits) : ~IsDigit(digits[i])
        THEN [err |-> TRUE, n |-> 0]
        ELSE [err |-> FALSE,
              n |-> IF signed /\ Head(s) = "-" THEN 0 - ParseDigits(digits, 0)
                    ELSE ParseDigits(digits, 0)]

RECURSIVE TrimLeft(_)
TrimLeft(s) == IF s # <<>> /\ Head(s) = " " THEN TrimLeft(Tail(s)) ELSE s

RECURSIVE TrimRight(_)
TrimRight(s) ==
    IF s # <<>> /\ s[Len(s)] = " " THEN TrimRight(SubSeq(s, 1, Len(s) - 1)) ELSE s

(* strings.TrimSpace(s), for the one white-space character of the model *)
TrimSpace(s) == TrimRight(TrimLeft(s))

UpperCase == <<"A", "B", "C", "D", "E", "F", "G", "H", "I", "J", "K", "L", "M",
               "N", "O", "P", "Q", "R", "S", "T", "U", "V", "W", "X", "Y", "Z">>

LowerCase == <<"a", "b", "c", "d", "e", "f", "g", "h", "i", "j", "k", "l", "m",
               "n", "o", "p", "q", "r", "s", "t", "u", "v", "w", "x", "y", "z">>

(* strings.ToLower(s) *)
ToLower(s) ==
    [i \in 1..Len(s) |->
        IF \E j \in 1..Len(UpperCase) : UpperCase[j] = s[i]
        THEN LowerCase[CHOOSE j \in 1..Len(UpperCase) : UpperCase[j] = s[i]]
        ELSE s[i]]

RECURSIVE ExtFrom(_, _)
(* the loop of filepath.Ext: from position i towards the start of path,    *)
(* until a dot or a path separator                                         *)
ExtFrom(path, i) ==
    IF i < 1 \/ path[i] = "/" THEN <<>>
    ELSE IF path[i] = "." THEN SubSeq(path, i, Len(path))
    ELSE ExtFrom(path, i - 1)

(* filepath.Ext(path) *)
Ext(path) == ExtFrom(path, Len(path))

(***************************************************************************)
(* Keys and literals of handleN8nWebhook.                                  *)
(***************************************************************************)
KText == <<"t", "e", "x", "t">>
KMessage == <<"m", "e", "s", "s", "a", "g", "e">>
KStatus == <<"s", "t", "a", "t", "u", "s">>
KWebhookUrl == <<"w", "e", "b", "h", "o", "o", "k", "U", "r", "l">>
KExecutionMode == <<"e", "x", "e", "c", "u", "t", "i", "o", "n", "M", "o", "d", "e">>
KTimestamp == <<"t", "i", "m", "e", "s", "t", "a", "m", "p">>
KId == <<"i", "d">>

excludeFields == {KStatus, KWebhookUrl, KExecutionMode, KTimestamp, KId}

Completed == <<"c", "o", "m", "p", "l", "e", "t", "e", "d">>

(* The literal of handlers.go:150 is Cyrillic; its characters are outside  *)
(* the alphabet of the model, so the whole literal is kept as one symbol.  *)
Placeholder == <<"Dannye obrabotany, no tekst rezul'tata pust">>

IdPrefix == <<"r", "e", "s", "_">>

(***************************************************************************)
(* JSON values as encoding/json decodes them into interface{}: a string,   *)
(* a float64 (kept in eighths, which a float64 holds exactly), a bool, a   *)
(* nested map, a slice or nil.                                             *)
(***************************************************************************)
VStr(s) == [t |-> "string", s |-> s]
VNum(eighths) == [t |-> "float64", n |-> eighths]
VBool(b) == [t |-> "bool", b |-> b]
VObj(m) == [t |-> "map", m |-> m]
VArr(a) == [t |-> "slice", a |-> a]
VNil == [t |-> "nil"]

EmptyMap == <<>>

(* fmt's %.2f of the float64 eighths/8: correctly rounded, ties to even *)
FormatFixed2(eighths) ==
    LET a == IF eighths < 0 THEN 0 - eighths ELSE eighths
        thousandths == 125 * a
        q0 == thousandths \div 10
        r == thousandths % 10
        q == IF r > 5 \/ (r = 5 /\ q0 % 2 = 1) THEN q0 + 1 ELSE q0
    IN  (IF eighths < 0 THEN <<"-">> ELSE <<>>)
        \o Itoa(q \div 100) \o <<".">>
        \o <<Digits[((q % 100) \div 10) + 1], Digits[(q % 10) + 1]>>

(* fmt's %t *)
FormatBool(b) == IF b THEN <<"t", "r", "u", "e">> ELSE <<"f", "a", "l", "s", "e">>

(* encoding/json's float64 encoder: shortest decimal that round-trips *)
MarshalNumber(eighths) ==
    LET a == IF eighths < 0 THEN 0 - eighths ELSE eighths
        thousandths == 125 * a
        frac == thousandths % 1000
        d1 == frac \div 100
        d2 == (frac % 100) \div 10
        d3 == frac % 10
        fracStr == IF frac = 0 THEN <<>>
                   ELSE IF d2 = 0 /\ d3 = 0 THEN <<".", Digits[d1 + 1]>>
                   ELSE IF d3 = 0 THEN <<".", Digits[d1 + 1], Digits[d2 + 1]>>
                   ELSE <<".", Digits[d1 + 1], Digits[d2 + 1], Digits[d3 + 1]>>
    IN  (IF eighths < 0 THEN <<"-">> ELSE <<>>) \o Itoa(thousandths \div 1000) \o fracStr

RECURSIVE EscapeString(_)
(* encoding/json's string escaping, for the characters of the model *)
EscapeString(s) ==
    IF s = <<>> THEN <<>>
    ELSE (CASE Head(s) = "\"" -> <<"\\", "\"">>
            [] Head(s) = "\\" -> <<"\\", "\\">>
            [] Head(s) = NL -> <<"\\", "n">>
            [] OTHER -> <<Head(s)>>) \o EscapeString(Tail(s))

MarshalString(s) == <<"\"">> \o EscapeString(s) \o <<"\"">>

(* byte order of the characters that occur in map keys *)
Alphabet == <<"0", "1", "2", "3", "4", "5", "6", "7", "8", "9",
              "M", "U", "_",
              "a", "b", "c", "d", "e", "f", "g", "h", "i", "j", "k", "l", "m",
              "n", "o", "p", "q", "r", "s", "t", "u", "v", "w", "x", "y", "z">>

CharRank(c) == CHOOSE i \in 1..Len(Alphabet) : Alphabet[i] = c

RECURSIVE StrLess(_, _)
(* Go's < on strings *)
StrLess(a, b) ==
    IF b = <<>> THEN FALSE
    ELSE IF a = <<>> THEN TRUE
    ELSE IF Head(a) = Head(b) THEN StrLess(Tail(a), Tail(b))
    ELSE CharRank(Head(a)) < CharRank(Head(b))

RECURSIVE SortedKeys(_)
(* encoding/json writes the keys of a map sorted *)
SortedKeys(keys) ==
    IF keys = {} THEN <<>>
    ELSE LET least == CHOOSE k \in keys : \A o \in keys \ {k} : StrLess(k, o)
         IN  <<least>> \o SortedKeys(keys \ {least})

RECURSIVE Marshal(_)
(* json.Marshal of a decoded value *)
Marshal(v) ==
    CASE v.t = "string" -> MarshalString(v.s)
      [] v.t = "float64" -> MarshalNumber(v.n)
      [] v.t = "bool" -> FormatBool(v.b)
      [] v.t = "nil" -> <<"n", "u", "l", "l">>
      [] v.t = "slice" ->
            <<"[">> \o Join([i \in 1..Len(v.a) |-> Marshal(v.a[i])], <<",">>) \o <<"]">>
      [] v.t = "map" ->
            LET ks == SortedKeys(DOMAIN v.m)
            IN  <<"{">>
                \o Join([i \in 1..Len(ks) |->
                            MarshalString(ks[i]) \o <<":">> \o Marshal(v.m[ks[i]])],
                        <<",">>)
                \o <<"}">>

(***************************************************************************)
(* Request bodies.  A body is given by what json.Unmarshal makes of it:    *)
(* a JSON object (kind "object", its members in fields), the JSON literal  *)
(* null (kind "null"), or bytes that do not decode into a map (kind        *)
(* "other": malformed or empty input, or JSON that is not an object).      *)
(***************************************************************************)
ObjectBody(fields) == [kind |-> "object", fields |-> fields]
NullBody == [kind |-> "null", raw |-> <<"n", "u", "l", "l">>]
OtherBody(raw) == [kind |-> "other", raw |-> raw]

KNote == <<"n", "o", "t", "e">>
KN == <<"n">>
KFlag == <<"f", "l", "a", "g">>
KMemo == <<"m", "e", "m", "o">>
KObj == <<"o", "b", "j">>
KArr == <<"a", "r", "r">>
KZ == <<"z">>
SError == <<"e", "r", "r", "o", "r">>

Bodies == <<
    (* 1: not JSON *)
    OtherBody(<<"H", "i">>),
    (* 2: the empty body *)
    OtherBody(<<>>),
    (* 3: null *)
    NullBody,
    (* 4: {"text":"a","message":"b"} *)
    ObjectBody((KText :> VStr(<<"a">>)) @@ (KMessage :> VStr(<<"b">>))),
    (* 5: {"text":"","message":"b","status":"error"} *)
    ObjectBody((KText :> VStr(<<>>)) @@ (KMessage :> VStr(<<"b">>))
               @@ (KStatus :> VStr(SError))),
    (* 6: {"text":5,"message":"c"} *)
    ObjectBody((KText :> VNum(40)) @@ (KMessage :> VStr(<<"c">>))),
    (* 7: {"status":"error"} *)
    ObjectBody((KStatus :> VStr(SError))),
    (* 8: {"id":"x","n":1.5,"note":""} *)
    ObjectBody((KId :> VStr(<<"x">>)) @@ (KN :> VNum(12)) @@ (KNote :> VStr(<<>>))),
    (* 9: {"flag":true,"memo":"a\nid: b","message":""} *)
    ObjectBody((KFlag :> VBool(TRUE))
               @@ (KMemo :> VStr(<<"a", NL, "i", "d", ":", " ", "b">>))
               @@ (KMessage :> VStr(<<>>))),
    (* 10: {"obj":{"b":0.125,"a":"x"},"arr":[2,null],"z":null,"status":""} *)
    ObjectBody((KObj :> VObj((<<"b">> :> VNum(1)) @@ (<<"a">> :> VStr(<<"x">>))))
               @@ (KArr :> VArr(<<VNum(16), VNil>>))
               @@ (KZ :> VNil)
               @@ (KStatus :> VStr(<<>>))),
    (* 11: {"message":"d","note":"x"} *)
    ObjectBody((KMessage :> VStr(<<"d">>)) @@ (KNote :> VStr(<<"x">>))),
    (* 12: [1], JSON that is not an object *)
    OtherBody(<<"[", "1", "]">>),
    (* 13: {"text":"t","status":2} *)
    ObjectBody((KText :> VStr(<<"t">>)) @@ (KStatus :> VNum(16))),
    (* 14: {"id":"res_9","timestamp":7,"n":1.5,"note":""} *)
    ObjectBody((KId :> VStr(<<"r", "e", "s", "_", "9">>)) @@ (KTimestamp :> VNum(56))
               @@ (KN :> VNum(12)) @@ (KNote :> VStr(<<>>)))
>>

BodyIds == 1..Len(Bodies)

(* json.Unmarshal(body, &webhookData): the error and the map it leaves.    *)
(* null is accepted and leaves the map nil, which reads as an empty map.   *)
Unmarshal(body) ==
    CASE body.kind = "object" -> [err |-> FALSE, data |-> body.fields]
      [] body.kind = "null" -> [err |-> FALSE, data |-> EmptyMap]
      [] OTHER -> [err |-> TRUE, data |-> EmptyMap]

(* the orders in which `range webhookData` may visit the keys *)
RangeOrders(m) ==
    {o \in [1..Cardinality(DOMAIN m) -> DOMAIN m] :
        \A i, j \in 1..Cardinality(DOMAIN m) : i # j => o[i] # o[j]}

(***************************************************************************)
(* handleN8nWebhook, lines 86-152: from the body to text and status.       *)
(***************************************************************************)
(* v, ok := m[key].(string); ok && v != "" *)
NonEmptyString(m, key) ==
    /\ key \in DOMAIN m
    /\ m[key].t = "string"
    /\ m[key].s # <<>>

(* fmt.Sprintf("%s: ...", key, v) for the value's dynamic type *)
FormatPart(key, v) ==
    key \o <<":", " ">> \o
    (CASE v.t = "string" -> v.s
       [] v.t = "float64" -> FormatFixed2(v.n)
       [] v.t = "int" -> FormatInt(v.i)
       [] v.t = "bool" -> FormatBool(v.b)
       [] v.t = "map" -> Marshal(v)
       [] v.t = "slice" -> Marshal(v)
       [] OTHER -> <<"<", "n", "i", "l", ">">>)

(* a loop body that does not skip the excluded keys *)
AppendPartNoExclude(parts, key, v) ==
    IF v.t = "string" /\ v.s = <<>> THEN parts
    ELSE Append(parts, FormatPart(key, v))

(* one pass of the loop body: the parts after visiting key *)
AppendPart(parts, key, v) ==
    IF key \in excludeFields THEN parts
    ELSE IF v.t = "string" /\ v.s = <<>> THEN parts
    ELSE Append(parts, FormatPart(key, v))

RECURSIVE BuildParts(_, _, _)
(* for key, value := range webhookData, visiting the keys in order *)
BuildParts(m, order, parts) ==
    IF order = <<>> THEN parts
    ELSE BuildParts(m, Tail(order), AppendPart(parts, Head(order), m[Head(order)]))

(* a selection that looks at message before text *)
TextOfMapMessageFirst(m, order) ==
    IF NonEmptyString(m, KMessage) THEN m[KMessage].s
    ELSE IF NonEmptyString(m, KText) THEN m[KText].s
    ELSE LET parts == BuildParts(m, order, <<>>)
         IN  IF Len(parts) > 0 THEN Join(parts, <<NL>>) ELSE <<>>

(* a selection that takes text whenever it is a string, empty or not *)
TextOfMapAnyText(m, order) ==
    IF KText \in DOMAIN m /\ m[KText].t = "string" THEN m[KText].s
    ELSE IF NonEmptyString(m, KMessage) THEN m[KMessage].s
    ELSE LET parts == BuildParts(m, order, <<>>)
         IN  IF Len(parts) > 0 THEN Join(parts, <<NL>>) ELSE <<>>

(* lines 91-138: the text of a decoded map *)
TextOfMap(m, order) ==
    IF NonEmptyString(m, KText) THEN m[KText].s
    ELSE IF NonEmptyString(m, KMessage) THEN m[KMessage].s
    ELSE LET parts == BuildParts(m, order, <<>>)
         IN  IF Len(parts) > 0 THEN Join(parts, <<NL>>) ELSE <<>>

(* a status taken from any string, the empty one included *)
StatusOfMapAnyString(m) ==
    IF KStatus \in DOMAIN m /\ m[KStatus].t = "string" THEN m[KStatus].s ELSE Completed

(* lines 88, 140-142 *)
StatusOfMap(m) ==
    IF NonEmptyString(m, KStatus) THEN m[KStatus].s ELSE Completed

(* a handler that drops a body it could not decode *)
ExtractTextDropRaw(body, order) ==
    LET u == Unmarshal(body)
    IN  IF ~u.err THEN TextOfMap(u.data, order) ELSE <<>>

(* lines 86-147: responseText before the placeholder *)
ExtractText(body, order) ==
    LET u == Unmarshal(body)
    IN  IF ~u.err THEN TextOfMap(u.data, order) ELSE body.raw

(* lines 88-147: status *)
ExtractStatus(body) ==
    LET u == Unmarshal(body)
    IN  IF ~u.err THEN StatusOfMap(u.data) ELSE Completed

(* a handler without the fallback of lines 149-152 *)
OrPlaceholderNone(responseText) == responseText

(* lines 149-152 *)
OrPlaceholder(responseText) ==
    IF responseText = <<>> THEN Placeholder ELSE responseText

(* generateSimpleID() at UnixNano() = nanos *)
generateSimpleID(nanos) == IdPrefix \o FormatInt(nanos)

(* lines 154-159 *)
ProcessingResponse(id, text, timestamp, status) ==
    [ID |-> id, Text |-> text, Timestamp |-> timestamp, Status |-> status]

(***************************************************************************)
(* handleFileUpload and isValidFileType.                                   *)
(***************************************************************************)
validExtensions == <<<<".", "p", "d", "f">>, <<".", "j", "p", "g">>,
                     <<".", "j", "p", "e", "g">>, <<".", "p", "n", "g">>>>

(* a test that compares the extension as it is written *)
isValidFileTypeExact(filename) ==
    \E i \in 1..Len(validExtensions) : Ext(filename) = validExtensions[i]

(* isValidFileType(filename) *)
isValidFileType(filename) ==
    LET ext == ToLower(Ext(filename))
    IN  \E i \in 1..Len(validExtensions) : ext = validExtensions[i]

FileNames == <<
    <<"a", ".", "p", "d", "f">>,
    <<"a", ".", "j", "p", "g">>,
    <<"a", ".", "j", "p", "e", "g">>,
    <<"a", ".", "p", "n", "g">>,
    <<"a", ".", "d", "o", "c">>,
    <<>>,
    <<"n", "o", "e", "x", "t">>,
    <<"t", ".", "P", "D", "F">>,
    <<"t", ".", "J", "p", "G">>,
    <<"a", ".", "p", "d", "f", ".", "z", "i", "p">>,
    <<"b", ".", "p", "n", "g", "/", "c">>,
    <<".", "p", "d", "f">>,
    <<"a", ".", "p", "d", "f", "x">>,
    <<"a", "p", "d", "f">>,
    <<"a", ".", "z", "i", "p", ".", "P", "n", "g">>,
    <<"a", ".", "p", "d", "f", ".">>
>>

FileNameIds == 1..Len(FileNames)

(* client.Do failed: there is no status *)
TransportError == -1

(* what the n8n webhook may answer to the forwarded document *)
N8nStatuses == {TransportError, 199, 200, 204, 299, 300, 500}

(* what handleFileUpload reads from its request: the method, whether the   *)
(* multipart form parses, the message field, whether a file part is there, *)
(* the file's name, and what n8n answers if the document is forwarded      *)
UploadRequest(method, formOk, message, hasFile, name, n8n) ==
    [method |-> method, formOk |-> formOk, message |-> message,
     hasFile |-> hasFile, name |-> name, n8n |-> n8n]

(* requests that fail one check, requests that fail that check and all     *)
(* later ones, and requests that pass every check                          *)
UploadRequests(names) ==
    {UploadRequest("GET", TRUE, <<"m">>, TRUE, 1, 200),
     UploadRequest("GET", FALSE, <<" ">>, FALSE, 0, TransportError),
     UploadRequest("POST", FALSE, <<"m">>, TRUE, 1, 200),
     UploadRequest("POST", FALSE, <<" ">>, FALSE, 0, TransportError),
     UploadRequest("POST", TRUE, <<" ">>, TRUE, 1, 200),
     UploadRequest("POST", TRUE, <<" ">>, FALSE, 0, TransportError),
     UploadRequest("POST", TRUE, <<"m">>, FALSE, 0, 200)}
    \cup {UploadRequest("POST", TRUE, <<"m">>, TRUE, n, s) :
            n \in names, s \in {TransportError, 200}}
    \cup {UploadRequest("POST", TRUE, <<"m">>, TRUE, 1, s) : s \in N8nStatuses}

(***************************************************************************)
(* Package onec: loadConfig, NewOneCService and ProcessN8nResponse.        *)
(* A pointer is modelled by whether it is nil; of the configuration only   *)
(* Enabled and AutoSend are kept, of a result Success, ErrorMessage and    *)
(* OneCRef; the texts of messages are kept as short tags.                  *)
(***************************************************************************)
IntegrationConfig(enabled, autoSend) == [Enabled |-> enabled, AutoSend |-> autoSend]

(* what may be at the configuration path: nothing, a file that cannot be   *)
(* read, a file that is not the JSON of a configuration, a configuration   *)
ConfigFiles ==
    {[kind |-> "missing"], [kind |-> "unreadable"], [kind |-> "malformed"]}
    \cup {[kind |-> "config", config |-> IntegrationConfig(e, a)] :
            e \in BOOLEAN, a \in BOOLEAN}

(* loadConfig(configPath) *)
loadConfig(file) ==
    CASE file.kind = "missing" ->
            [err |-> FALSE, config |-> IntegrationConfig(FALSE, FALSE)]
      [] file.kind = "config" -> [err |-> FALSE, config |-> file.config]
      [] OTHER -> [err |-> TRUE, config |-> IntegrationConfig(FALSE, FALSE)]

NilService == [kind |-> "nil"]

(* &OneCService{client, config, enabled}; client tells whether the         *)
(* pointer is set                                                          *)
OneCService(client, config, enabled) ==
    [kind |-> "service", client |-> client, config |-> config, enabled |-> enabled]

(* a constructor that reports a failed connection test as an error *)
NewOneCServiceStrict(file, reachable) ==
    LET l == loadConfig(file)
    IN  IF l.err \/ (l.config.Enabled /\ ~reachable)
        THEN [err |-> TRUE, service |-> NilService]
        ELSE [err |-> FALSE,
              service |-> OneCService(l.config.Enabled, l.config, l.config.Enabled)]

(* a constructor that keeps the client only when the connection test       *)
(* passes and leaves the integration enabled                               *)
NewOneCServiceNoClient(file, reachable) ==
    LET l == loadConfig(file)
    IN  IF l.err THEN [err |-> TRUE, service |-> NilService]
        ELSE [err |-> FALSE,
              service |-> OneCService(l.config.Enabled /\ reachable, l.config,
                                      l.config.Enabled)]

(* NewOneCService(configPath), with reachable telling whether              *)
(* client.TestConnection() succeeds                                        *)
NewOneCService(file, reachable) ==
    LET l == loadConfig(file)
    IN  IF l.err THEN [err |-> TRUE, service |-> NilService]
        ELSE LET enabled == l.config.Enabled /\ reachable
             IN  [err |-> FALSE,
                  service |-> OneCService(l.config.Enabled,
                                          [l.config EXCEPT !.Enabled = enabled],
                                          enabled)]

IntegrationResult(success, message, ref) ==
    [Success |-> success, ErrorMessage |-> message, OneCRef |-> ref]

NilResult == [kind |-> "nil"]

(* what client.SendDocument may come back with: an error, a response with  *)
(* Success false, a response with Success true                             *)
SendOutcomes == {"error", "rejected", "created"}

(* a ProcessN8nResponse without the check of lines 76-81 *)
ProcessN8nResponseNoGate(s, outcome) ==
    IF ~s.config.AutoSend
    THEN [result |-> IntegrationResult(TRUE, "prepared", ""), err |-> FALSE,
          sent |-> FALSE, panic |-> FALSE]
    ELSE IF ~s.client
    THEN [result |-> NilResult, err |-> FALSE, sent |-> FALSE, panic |-> TRUE]
    ELSE CASE outcome = "error" ->
                [result |-> IntegrationResult(FALSE, "error", ""), err |-> TRUE,
                 sent |-> TRUE, panic |-> FALSE]
           [] outcome = "rejected" ->
                [result |-> IntegrationResult(FALSE, "rejected", ""), err |-> FALSE,
                 sent |-> TRUE, panic |-> FALSE]
           [] OTHER ->
                [result |-> IntegrationResult(TRUE, "", "ref"), err |-> FALSE,
                 sent |-> TRUE, panic |-> FALSE]

(* s.ProcessN8nResponse(n8nData) when SendDocument, if it is called, comes *)
(* back with outcome: the result, whether the error is non-nil, whether    *)
(* SendDocument was called, and whether s.client was nil at line 105       *)
ProcessN8nResponse(s, outcome) ==
    IF ~s.enabled
    THEN [result |-> IntegrationResult(TRUE, "disabled", ""), err |-> FALSE,
          sent |-> FALSE, panic |-> FALSE]
    ELSE IF ~s.config.AutoSend
    THEN [result |-> IntegrationResult(TRUE, "prepared", ""), err |-> FALSE,
          sent |-> FALSE, panic |-> FALSE]
    ELSE IF ~s.client
    THEN [result |-> NilResult, err |-> FALSE, sent |-> FALSE, panic |-> TRUE]
    ELSE CASE outcome = "error" ->
                [result |-> IntegrationResult(FALSE, "error", ""), err |-> TRUE,
                 sent |-> TRUE, panic |-> FALSE]
           [] outcome = "rejected" ->
                [result |-> IntegrationResult(FALSE, "rejected", ""), err |-> FALSE,
                 sent |-> TRUE, panic |-> FALSE]
           [] OTHER ->
                [result |-> IntegrationResult(TRUE, "", "ref"), err |-> FALSE,
                 sent |-> TRUE, panic |-> FALSE]

(***************************************************************************)
(* State.                                                                  *)
(***************************************************************************)
VARIABLES
    maxResponses,   \* config.go: capacity of the history
    responses,      \* the history, oldest first
    locked,         \* responsesMutex is held by a writer
    readers,        \* number of read locks held on responsesMutex
    clock,          \* what time.Now() reads
    pc,             \* where each serving goroutine stands
    req,            \* the request each goroutine serves
    response,       \* handleN8nWebhook: the record being built
    data,           \* handleGetResults: the copy
    resp,           \* what the handler wrote to its ResponseWriter
    appended,       \* history variable: every record appended, in order
    stored,         \* history variable: records the current request appended
    taken,          \* history variable: appends made when the copy was taken
    nreq,           \* number of requests accepted so far
    env,            \* the environment variable MAX_RESPONSES ("" when unset)
    posted,         \* history variable: calls of sendToN8n made for the request
    configFile,     \* what is at onecConfigPath when the process starts
    oneCReachable,  \* whether 1C answers TestConnection when the process starts
    oneCService,    \* the global oneCService of the revision with 1C
    sentBy,         \* history variable: the callers SendDocument was called for
    originalAutoSend, \* SendManually: the local originalAutoSend of each call
    isUploading,    \* script.js: this.isUploading
    inFlight,       \* script.js: fetch('/upload') calls that have not settled
    submits,        \* script.js: submit events handled so far
    lastSubmit,     \* history variable: what the last submit event came to
    message,        \* script.js: the value of the textarea #message
    selectedFile,   \* script.js: this.selectedFile
    statusMessage,  \* script.js: the kind of message #statusMessage shows
    uploadCall            \* script.js: where the running uploadDocument() waits

vars == <<maxResponses, responses, locked, readers, clock, pc, req, response,
          data, resp, appended, stored, taken, nreq, env, posted, configFile,
          oneCReachable, oneCService, sentBy, originalAutoSend, isUploading,
          inFlight, submits, lastSubmit, message, selectedFile, statusMessage,
          uploadCall>>

(* the state of the revision with 1C integration *)
onecVars == <<configFile, oneCReachable, oneCService, sentBy, originalAutoSend>>

(* the state of the browser client *)
clientVars == <<isUploading, inFlight, submits, lastSubmit, message, selectedFile,
                statusMessage, uploadCall>>

DefaultMaxResponses == 20

(* the values initEnvVariables may leave in maxResponses *)
Capacities == (-1..MaxCapacity) \cup {DefaultMaxResponses}

(* the values MAX_RESPONSES may have: unset, an integer, not an integer *)
EnvValues == {<<>>, <<"2", "x">>} \cup {FormatInt(c) : c \in -1..MaxCapacity}

StatusOK == 200
StatusBadRequest == 400
StatusNotFound == 404
StatusMethodNotAllowed == 405
StatusInternalServerError == 500
StatusServiceUnavailable == 503

ZeroResponse == ProcessingResponse(<<>>, <<>>, 0, <<>>)
NoRequest == [handler |-> "none", method |-> "", readOk |-> TRUE, body |-> 0]
NoReply == [code |-> 0, status |-> "", data |-> <<>>]

(* sendJSONResponse(w, APIResponse{Status: "success", Data: d}) *)
sendJSONResponse(d) == [code |-> StatusOK, status |-> "success", data |-> d]

(* sendJSONError(w, message, statusCode) *)
sendJSONError(statusCode) == [code |-> statusCode, status |-> "error", data |-> <<>>]

(* the state of the server when the process starts *)
InitServer ==
    /\ env \in EnvValues
    /\ maxResponses = 0
    /\ responses = <<>>
    /\ locked = FALSE
    /\ readers = 0
    /\ clock = 0
    /\ pc = [p \in Procs |-> "boot"]
    /\ req = [p \in Procs |-> NoRequest]
    /\ response = [p \in Procs |-> ZeroResponse]
    /\ data = [p \in Procs |-> <<>>]
    /\ resp = [p \in Procs |-> NoReply]
    /\ appended = <<>>
    /\ stored = [p \in Procs |-> 0]
    /\ taken = [p \in Procs |-> 0]
    /\ posted = [p \in Procs |-> 0]
    /\ nreq = 0

(* no configuration file and no service: the revision of handlers.go *)
NoConfigFile == [kind |-> "missing"]
NoService == [kind |-> "none"]

(* the server without 1C integration *)
InitNoOneC ==
    /\ configFile = NoConfigFile
    /\ oneCReachable = FALSE
    /\ oneCService = NoService
    /\ sentBy = {}
    /\ originalAutoSend = [p \in Procs |-> FALSE]

(* this.selectedFile = null *)
NoFile == [kind |-> "null"]

(* no uploadDocument() is running *)
NoCall == [at |-> "none", ok |-> FALSE]

(* the page as the constructor of DocumentAIApp leaves it; the server      *)
(* specifications leave it alone                                           *)
InitNoClient ==
    /\ isUploading = FALSE
    /\ inFlight = 0
    /\ submits = 0
    /\ lastSubmit = "none"
    /\ message = <<>>
    /\ selectedFile = NoFile
    /\ statusMessage = "none"
    /\ uploadCall = NoCall

(* the process starts: no handler runs before initEnvVariables returns *)
Init ==
    /\ InitServer
    /\ InitNoOneC
    /\ InitNoClient

(* a loader without the default: an unset variable leaves the zero value *)
initEnvVariablesNoDefault ==
    /\ \A p \in Procs : pc[p] = "boot"
    /\ maxResponses' = Atoi(env).n
    /\ pc' = [p \in Procs |-> "idle"]
    /\ UNCHANGED <<onecVars, clientVars, posted, env, responses, locked, readers, clock, req, response, data,
                   resp, appended, nreq, stored, taken>>

(* config.go, lines 45-54, and the start of the server: MAX_RESPONSES      *)
(* unset gives the default, an integer is taken as it is, anything else    *)
(* ends the process in log.Fatalf                                          *)
initEnvVariables ==
    /\ \A p \in Procs : pc[p] = "boot"
    /\ IF env = <<>>
       THEN /\ maxResponses' = DefaultMaxResponses
            /\ pc' = [p \in Procs |-> "idle"]
       ELSE IF Atoi(env).err
       THEN /\ pc' = [p \in Procs |-> "exited"]
            /\ UNCHANGED maxResponses
       ELSE /\ maxResponses' = Atoi(env).n
            /\ pc' = [p \in Procs |-> "idle"]
    /\ UNCHANGED <<onecVars, clientVars, posted, env, responses, locked, readers, clock, req, response, data,
                   resp, appended, nreq, stored, taken>>

(* the clock advances *)
Tick ==
    /\ clock < MaxClock
    /\ clock' = clock + 1
    /\ UNCHANGED <<onecVars, clientVars, posted, env, taken, maxResponses, responses, locked, readers, pc, req, response,
                   data, resp, appended, nreq, stored>>

(***************************************************************************)
(* handleN8nWebhook.  A step that touches only the goroutine's own state   *)
(* is taken together with the next step that reads or writes shared state. *)
(***************************************************************************)
(* a handler without the method check: the request is taken as a POST     *)
(* with an empty body                                                      *)
WebhookWrongMethodAccepted(p, limit) ==
    /\ pc[p] = "idle"
    /\ nreq < limit
    /\ nreq' = nreq + 1
    /\ req' = [req EXCEPT ![p] = [handler |-> "webhook", method |-> "GET",
                                  readOk |-> TRUE, body |-> 2]]
    /\ response' = [response EXCEPT ![p] =
          ProcessingResponse(generateSimpleID(clock), Placeholder, 0, Completed)]
    /\ pc' = [pc EXCEPT ![p] = "w_now"]
    /\ UNCHANGED <<onecVars, clientVars, posted, env, taken, maxResponses, responses, locked, readers, clock,
                   data, resp, appended, stored>>

(* lines 73-76: a request that is not a POST *)
WebhookWrongMethod(p, limit) ==
    /\ pc[p] = "idle"
    /\ nreq < limit
    /\ nreq' = nreq + 1
    /\ req' = [req EXCEPT ![p] = [handler |-> "webhook", method |-> "GET",
                                  readOk |-> TRUE, body |-> 0]]
    /\ resp' = [resp EXCEPT ![p] = sendJSONError(StatusMethodNotAllowed)]
    /\ pc' = [pc EXCEPT ![p] = "done"]
    /\ UNCHANGED <<onecVars, clientVars, posted, env, taken, maxResponses, responses, locked, readers, clock, response,
                   data, appended, stored>>

(* lines 78-83: io.ReadAll fails *)
WebhookReadError(p, limit) ==
    /\ pc[p] = "idle"
    /\ nreq < limit
    /\ nreq' = nreq + 1
    /\ req' = [req EXCEPT ![p] = [handler |-> "webhook", method |-> "POST",
                                  readOk |-> FALSE, body |-> 0]]
    /\ resp' = [resp EXCEPT ![p] = sendJSONError(StatusBadRequest)]
    /\ pc' = [pc EXCEPT ![p] = "done"]
    /\ UNCHANGED <<onecVars, clientVars, posted, env, taken, maxResponses, responses, locked, readers, clock, response,
                   data, appended, stored>>

(* a handler that answers 400 to a body that does not decode *)
WebhookBeginStrict(p, bodies, limit) ==
    /\ pc[p] = "idle"
    /\ nreq < limit
    /\ nreq' = nreq + 1
    /\ \E b \in bodies :
         \E order \in RangeOrders(Unmarshal(Bodies[b]).data) :
            /\ req' = [req EXCEPT ![p] = [handler |-> "webhook", method |-> "POST",
                                          readOk |-> TRUE, body |-> b]]
            /\ IF Unmarshal(Bodies[b]).err
               THEN /\ resp' = [resp EXCEPT ![p] = sendJSONError(StatusBadRequest)]
                    /\ pc' = [pc EXCEPT ![p] = "done"]
                    /\ UNCHANGED response
               ELSE /\ response' = [response EXCEPT ![p] =
                          ProcessingResponse(generateSimpleID(clock),
                                             OrPlaceholder(ExtractText(Bodies[b], order)),
                                             0,
                                             ExtractStatus(Bodies[b]))]
                    /\ pc' = [pc EXCEPT ![p] = "w_now"]
                    /\ UNCHANGED resp
    /\ UNCHANGED <<onecVars, clientVars, posted, env, taken, maxResponses, responses, locked, readers, clock, data,
                   appended, stored>>

(* the id a handler would take from the body when the body has one *)
PayloadIdOr(body, id) ==
    IF body.kind = "object" /\ NonEmptyString(body.fields, KId)
    THEN body.fields[KId].s
    ELSE id

(* a handler that keeps the id of the body *)
WebhookBeginPayloadId(p, bodies, limit) ==
    /\ pc[p] = "idle"
    /\ nreq < limit
    /\ nreq' = nreq + 1
    /\ \E b \in bodies :
         \E order \in RangeOrders(Unmarshal(Bodies[b]).data) :
            /\ req' = [req EXCEPT ![p] = [handler |-> "webhook", method |-> "POST",
                                          readOk |-> TRUE, body |-> b]]
            /\ response' = [response EXCEPT ![p] =
                  ProcessingResponse(PayloadIdOr(Bodies[b], generateSimpleID(clock)),
                                     OrPlaceholder(ExtractText(Bodies[b], order)),
                                     0,
                                     ExtractStatus(Bodies[b]))]
    /\ pc' = [pc EXCEPT ![p] = "w_now"]
    /\ UNCHANGED <<onecVars, clientVars, posted, env, taken, maxResponses, responses, locked, readers, clock,
                   data, resp, appended, stored>>

(* lines 73-155: a POST whose body is read: text, status and           *)
(* ID: generateSimpleID()                                              *)
WebhookBegin(p, bodies, limit) ==
    /\ pc[p] = "idle"
    /\ nreq < limit
    /\ nreq' = nreq + 1
    /\ \E b \in bodies :
         \E order \in RangeOrders(Unmarshal(Bodies[b]).data) :
            /\ req' = [req EXCEPT ![p] = [handler |-> "webhook", method |-> "POST",
                                          readOk |-> TRUE, body |-> b]]
            /\ response' = [response EXCEPT ![p] =
                  ProcessingResponse(generateSimpleID(clock),
                                     OrPlaceholder(ExtractText(Bodies[b], order)),
                                     0,
                                     ExtractStatus(Bodies[b]))]
    /\ pc' = [pc EXCEPT ![p] = "w_now"]
    /\ UNCHANGED <<onecVars, clientVars, posted, env, taken, maxResponses, responses, locked, readers, clock, data, resp,
                   appended, stored>>

(* line 157: Timestamp: time.Now() *)
WebhookNow(p) ==
    /\ pc[p] = "w_now"
    /\ response' = [response EXCEPT ![p].Timestamp = clock]
    /\ pc' = [pc EXCEPT ![p] = "w_lock"]
    /\ UNCHANGED <<onecVars, clientVars, posted, env, taken, maxResponses, responses, locked, readers, clock, req, data,
                   resp, appended, nreq, stored>>

(* an append at the head of the history *)
WebhookAppendFront(p) ==
    /\ pc[p] = "w_lock"
    /\ ~locked
    /\ readers = 0
    /\ locked' = TRUE
    /\ responses' = <<response[p]>> \o responses
    /\ appended' = Append(appended, response[p])
    /\ stored' = [stored EXCEPT ![p] = stored[p] + 1]
    /\ pc' = [pc EXCEPT ![p] = "w_trim"]
    /\ UNCHANGED <<onecVars, clientVars, posted, env, taken, maxResponses, readers, clock, req, response, data,
                   resp, nreq>>

(* lines 161-162: responsesMutex.Lock();                                   *)
(* responses = append(responses, response)                                 *)
WebhookAppend(p) ==
    /\ pc[p] = "w_lock"
    /\ ~locked
    /\ readers = 0
    /\ locked' = TRUE
    /\ responses' = Append(responses, response[p])
    /\ appended' = Append(appended, response[p])
    /\ stored' = [stored EXCEPT ![p] = stored[p] + 1]
    /\ pc' = [pc EXCEPT ![p] = "w_trim"]
    /\ UNCHANGED <<onecVars, clientVars, posted, env, taken, maxResponses, readers, clock, req, response, data, resp, nreq>>

(* a trim that keeps one record too many *)
SliceFromOneEarlier(s, low) == SubSeq(s, low, Len(s))

(* a trim that drops the newest records instead of the oldest *)
SliceKeepHead(s, low) == SubSeq(s, 1, Len(s) - low)

(* responses[low:] *)
SliceFrom(s, low) == SubSeq(s, low + 1, Len(s))

(* lines 163-168: the trim, responsesMutex.Unlock() and the                *)
(* acknowledgment.  With a negative maxResponses the slice bound exceeds   *)
(* the length: the expression panics, net/http recovers the panic and      *)
(* drops the connection without a reply, and line 166 is never reached.    *)
WebhookTrim(p) ==
    /\ pc[p] = "w_trim"
    /\ IF Len(responses) > maxResponses /\ Len(responses) - maxResponses > Len(responses)
       THEN UNCHANGED <<responses, locked, resp>>
       ELSE /\ responses' = IF Len(responses) > maxResponses
                            THEN SliceFrom(responses, Len(responses) - maxResponses)
                            ELSE responses
            /\ locked' = FALSE
            /\ resp' = [resp EXCEPT ![p] = sendJSONResponse(<<>>)]
    /\ pc' = [pc EXCEPT ![p] = "done"]
    /\ UNCHANGED <<onecVars, clientVars, posted, env, taken, maxResponses, readers, clock, req, response, data, appended,
                   nreq, stored>>

(***************************************************************************)
(* handleGetResults                                                        *)
(***************************************************************************)
(* the request arrives *)
ResultsBegin(p, limit) ==
    /\ pc[p] = "idle"
    /\ nreq < limit
    /\ nreq' = nreq + 1
    /\ req' = [req EXCEPT ![p] = [handler |-> "results", method |-> "GET",
                                  readOk |-> TRUE, body |-> 0]]
    /\ pc' = [pc EXCEPT ![p] = "g_rlock"]
    /\ UNCHANGED <<onecVars, clientVars, posted, env, taken, maxResponses, responses, locked, readers, clock, response,
                   data, resp, appended, stored>>

(* a copy that leaves out the records stamped before the clock reading *)
ResultsCopyRecent(p) ==
    /\ pc[p] = "g_rlock"
    /\ ~locked
    /\ readers' = readers + 1
    /\ data' = [data EXCEPT ![p] = SelectSeq(responses, LAMBDA r : r.Timestamp = clock)]
    /\ taken' = [taken EXCEPT ![p] = Len(appended)]
    /\ pc' = [pc EXCEPT ![p] = "g_runlock"]
    /\ UNCHANGED <<onecVars, clientVars, posted, env, maxResponses, responses, locked, clock, req, response,
                   resp, appended, nreq, stored>>

(* a retrieval that hands the records over and empties the history *)
ResultsCopyDrain(p) ==
    /\ pc[p] = "g_rlock"
    /\ ~locked
    /\ readers' = readers + 1
    /\ data' = [data EXCEPT ![p] = responses]
    /\ responses' = <<>>
    /\ taken' = [taken EXCEPT ![p] = Len(appended)]
    /\ pc' = [pc EXCEPT ![p] = "g_runlock"]
    /\ UNCHANGED <<onecVars, clientVars, posted, env, maxResponses, locked, clock, req, response, resp, appended,
                   nreq, stored>>

(* a copy that does not wait for the writer *)
ResultsCopyNoWait(p) ==
    /\ pc[p] = "g_rlock"
    /\ readers' = readers + 1
    /\ data' = [data EXCEPT ![p] = responses]
    /\ taken' = [taken EXCEPT ![p] = Len(appended)]
    /\ pc' = [pc EXCEPT ![p] = "g_runlock"]
    /\ UNCHANGED <<onecVars, clientVars, posted, env, maxResponses, responses, locked, clock, req, response,
                   resp, appended, nreq, stored>>

(* lines 172-174: responsesMutex.RLock(); data := make(...);               *)
(* copy(data, responses)                                                   *)
ResultsCopy(p) ==
    /\ pc[p] = "g_rlock"
    /\ ~locked
    /\ readers' = readers + 1
    /\ data' = [data EXCEPT ![p] = responses]
    /\ taken' = [taken EXCEPT ![p] = Len(appended)]
    /\ pc' = [pc EXCEPT ![p] = "g_runlock"]
    /\ UNCHANGED <<onecVars, clientVars, posted, env, maxResponses, responses, locked, clock, req, response,
                   resp, appended, nreq, stored>>

(* line 175: responsesMutex.RUnlock() *)
ResultsRUnlock(p) ==
    /\ pc[p] = "g_runlock"
    /\ readers' = readers - 1
    /\ pc' = [pc EXCEPT ![p] = "g_reply"]
    /\ UNCHANGED <<onecVars, clientVars, posted, env, taken, maxResponses, responses, locked, clock, req, response, data,
                   resp, appended, nreq, stored>>

(* a reply that encodes the history itself and not the copy *)
ResultsReplyShared(p) ==
    /\ pc[p] = "g_reply"
    /\ resp' = [resp EXCEPT ![p] = sendJSONResponse(responses)]
    /\ pc' = [pc EXCEPT ![p] = "done"]
    /\ UNCHANGED <<onecVars, clientVars, posted, env, taken, maxResponses, responses, locked, readers, clock, req, response,
                   data, appended, nreq, stored>>

(* lines 177-180: the reply, encoded from the copy after the read lock     *)
(* has been released                                                       *)
ResultsReply(p) ==
    /\ pc[p] = "g_reply"
    /\ resp' = [resp EXCEPT ![p] = sendJSONResponse(data[p])]
    /\ pc' = [pc EXCEPT ![p] = "done"]
    /\ UNCHANGED <<onecVars, clientVars, posted, env, taken, maxResponses, responses, locked, readers, clock, req, response,
                   data, appended, nreq, stored>>

(***************************************************************************)
(* handleFileUpload, handleHealthCheck and handleHome.  None of them       *)
(* reads or writes the history; each is one step.                          *)
(***************************************************************************)
(* sendToN8n, lines 242-253: an error when client.Do fails and when the    *)
(* status is below 200 or not below 300                                    *)
sendToN8n(n8n) == [err |-> n8n = TransportError \/ n8n < 200 \/ n8n >= 300]

(* a handler that forwards the document before it tests the file type *)
UploadReplyForwardFirst(u) ==
    IF u.method # "POST"
    THEN [code |-> StatusMethodNotAllowed, message |-> "method", posted |-> 0]
    ELSE IF ~u.formOk
    THEN [code |-> StatusBadRequest, message |-> "form", posted |-> 0]
    ELSE IF TrimSpace(u.message) = <<>>
    THEN [code |-> StatusBadRequest, message |-> "message", posted |-> 0]
    ELSE IF ~u.hasFile
    THEN [code |-> StatusBadRequest, message |-> "file", posted |-> 0]
    ELSE IF sendToN8n(u.n8n).err
    THEN [code |-> StatusInternalServerError, message |-> "n8n", posted |-> 1]
    ELSE IF ~isValidFileType(FileNames[u.name])
    THEN [code |-> StatusBadRequest, message |-> "type", posted |-> 1]
    ELSE [code |-> StatusOK, message |-> "sent", posted |-> 1]

(* handleFileUpload, lines 32-69: the status and the message of the reply  *)
(* (one tag for each message of the handler) and the calls of sendToN8n    *)
UploadReply(u) ==
    IF u.method # "POST"
    THEN [code |-> StatusMethodNotAllowed, message |-> "method", posted |-> 0]
    ELSE IF ~u.formOk
    THEN [code |-> StatusBadRequest, message |-> "form", posted |-> 0]
    ELSE IF TrimSpace(u.message) = <<>>
    THEN [code |-> StatusBadRequest, message |-> "message", posted |-> 0]
    ELSE IF ~u.hasFile
    THEN [code |-> StatusBadRequest, message |-> "file", posted |-> 0]
    ELSE IF ~isValidFileType(FileNames[u.name])
    THEN [code |-> StatusBadRequest, message |-> "type", posted |-> 0]
    ELSE IF sendToN8n(u.n8n).err
    THEN [code |-> StatusInternalServerError, message |-> "n8n", posted |-> 1]
    ELSE [code |-> StatusOK, message |-> "sent", posted |-> 1]

(* the status handleFileUpload answers with *)
UploadStatus(u) == UploadReply(u).code

(* handleFileUpload *)
FileUpload(p, names, limit) ==
    /\ pc[p] = "idle"
    /\ nreq < limit
    /\ nreq' = nreq + 1
    /\ \E u \in UploadRequests(names) :
          /\ req' = [req EXCEPT ![p] = [handler |-> "upload", method |-> u.method,
                                        readOk |-> u.formOk, body |-> 0, upload |-> u]]
          /\ resp' = [resp EXCEPT ![p] =
                [code |-> UploadStatus(u),
                 status |-> IF UploadStatus(u) = StatusOK THEN "success" ELSE "error",
                 data |-> <<>>,
                 message |-> UploadReply(u).message]]
          /\ posted' = [posted EXCEPT ![p] = UploadReply(u).posted]
    /\ pc' = [pc EXCEPT ![p] = "done"]
    /\ UNCHANGED <<onecVars, clientVars, env, taken, maxResponses, responses, locked, readers, clock,
                   response, data, appended, stored>>

(* handleHealthCheck *)
HealthCheck(p, limit) ==
    /\ pc[p] = "idle"
    /\ nreq < limit
    /\ nreq' = nreq + 1
    /\ req' = [req EXCEPT ![p] = [handler |-> "health", method |-> "GET",
                                  readOk |-> TRUE, body |-> 0]]
    /\ resp' = [resp EXCEPT ![p] =
          sendJSONResponse([status |-> "healthy", timestamp |-> clock])]
    /\ pc' = [pc EXCEPT ![p] = "done"]
    /\ UNCHANGED <<onecVars, clientVars, posted, env, taken, maxResponses, responses, locked, readers, clock,
                   response, data, appended, stored>>

(* handleHome: the index page for the path "/", 404 for any other path *)
Home(p, limit) ==
    /\ pc[p] = "idle"
    /\ nreq < limit
    /\ nreq' = nreq + 1
    /\ \E root \in BOOLEAN :
          /\ req' = [req EXCEPT ![p] = [handler |-> "home", method |-> "GET",
                                        readOk |-> root, body |-> 0]]
          /\ resp' = [resp EXCEPT ![p] =
                [code |-> IF root THEN StatusOK ELSE StatusNotFound,
                 status |-> "", data |-> <<>>]]
    /\ pc' = [pc EXCEPT ![p] = "done"]
    /\ UNCHANGED <<onecVars, clientVars, posted, env, taken, maxResponses, responses, locked, readers, clock,
                   response, data, appended, stored>>

(* the handler has returned: the goroutine takes the next request *)
Return(p) ==
    /\ pc[p] = "done"
    /\ pc' = [pc EXCEPT ![p] = "idle"]
    /\ req' = [req EXCEPT ![p] = NoRequest]
    /\ response' = [response EXCEPT ![p] = ZeroResponse]
    /\ data' = [data EXCEPT ![p] = <<>>]
    /\ resp' = [resp EXCEPT ![p] = NoReply]
    /\ stored' = [stored EXCEPT ![p] = 0]
    /\ taken' = [taken EXCEPT ![p] = 0]
    /\ posted' = [posted EXCEPT ![p] = 0]
    /\ UNCHANGED <<onecVars, clientVars, env, maxResponses, responses, locked, readers, clock, appended,
                   nreq>>

(* the steps of a goroutine that is serving a request *)
Step(p) ==
    \/ WebhookNow(p)
    \/ WebhookAppend(p)
    \/ WebhookTrim(p)
    \/ ResultsCopy(p)
    \/ ResultsRUnlock(p)
    \/ ResultsReply(p)
    \/ Return(p)

(***************************************************************************)
(* Spec: ingestions and retrievals served concurrently by MaxProcs         *)
(* goroutines.  Every POST carries the same body: the records differ by    *)
(* the clock readings in their id and timestamp.                           *)
(***************************************************************************)
RaceBodies == {1}

Next ==
    \/ initEnvVariables
    \/ Tick
    \/ \E p \in Procs : WebhookBegin(p, RaceBodies, MaxRequests)
    \/ \E p \in Procs : ResultsBegin(p, MaxRequests)
    \/ \E p \in Procs : Step(p)

Spec == Init /\ [][Next]_vars

(***************************************************************************)
(* SpecSeq: requests served one after the other by one goroutine, with     *)
(* every body and with the requests that are turned away.                  *)
(***************************************************************************)
NextSeq ==
    \/ initEnvVariables
    \/ Tick
    \/ WebhookWrongMethod(1, MaxSeqRequests)
    \/ WebhookReadError(1, MaxSeqRequests)
    \/ WebhookBegin(1, BodyIds, MaxSeqRequests)
    \/ ResultsBegin(1, MaxSeqRequests)
    \/ FileUpload(1, FileNameIds, MaxSeqRequests)
    \/ Step(1)

SpecSeq == Init /\ [][NextSeq]_vars

(***************************************************************************)
(* SpecOps: every handler of setupRoutes, served one request after the     *)
(* other by one goroutine, so that each request finds the history as the   *)
(* requests before it left it.                                             *)
(***************************************************************************)
OpsNames == {1, 5}

NextOps ==
    \/ initEnvVariables
    \/ Tick
    \/ WebhookWrongMethod(1, MaxRequests)
    \/ WebhookReadError(1, MaxRequests)
    \/ WebhookBegin(1, RaceBodies, MaxRequests)
    \/ ResultsBegin(1, MaxRequests)
    \/ FileUpload(1, OpsNames, MaxRequests)
    \/ HealthCheck(1, MaxRequests)
    \/ Home(1, MaxRequests)
    \/ Step(1)

SpecOps == Init /\ [][NextOps]_vars

(***************************************************************************)
(* The revision with 1C integration: initOneCIntegration, the webhook      *)
(* that hands its payload to the service, handleOneCStatus and             *)
(* handleOneCManualSend.  OneCService has no lock: SendManually reads,     *)
(* sets and restores s.config.AutoSend in steps of its own, and every      *)
(* other goroutine may run between them.                                   *)
(***************************************************************************)
(* main has yet to call initOneCIntegration *)
PendingService == [kind |-> "pending"]

(* the capacity of the specifications of this revision *)
OneCEnv == <<"1">>

(* the process of this revision starts *)
InitOneC ==
    /\ InitServer
    /\ env = OneCEnv
    /\ configFile \in ConfigFiles
    /\ oneCReachable \in BOOLEAN
    /\ oneCService = PendingService
    /\ sentBy = {}
    /\ originalAutoSend = [p \in Procs |-> FALSE]
    /\ InitNoClient

(* initOneCIntegration: an error of NewOneCService leaves the global nil *)
initOneCIntegration ==
    /\ \A p \in Procs : pc[p] = "idle"
    /\ oneCService = PendingService
    /\ oneCService' = NewOneCService(configFile, oneCReachable).service
    /\ UNCHANGED <<clientVars, posted, env, maxResponses, responses, locked, readers, clock,
                   pc, req, response, data, resp, appended, stored, taken, nreq,
                   configFile, oneCReachable, sentBy, originalAutoSend>>

(* initOneCIntegration has returned and the server listens *)
Listening == oneCService.kind \in {"nil", "service"}

(* ProcessingResponse{ID, Text, Timestamp, Status, OneCStatus} *)
ProcessingResponseOneC(r, oneCStatus) ==
    [ID |-> r.ID, Text |-> r.Text, Timestamp |-> r.Timestamp, Status |-> r.Status,
     OneCStatus |-> oneCStatus]

(* a webhook that answers 500 and stores nothing when the integration      *)
(* reports an error or a rejection                                         *)
WebhookOneCStrict(p, bodies, limit) ==
    /\ pc[p] = "idle"
    /\ Listening
    /\ nreq < limit
    /\ nreq' = nreq + 1
    /\ \E b \in bodies, outcome \in SendOutcomes :
         \E order \in RangeOrders(Unmarshal(Bodies[b]).data) :
            LET r == ProcessingResponse(generateSimpleID(clock),
                                        OrPlaceholder(ExtractText(Bodies[b], order)),
                                        clock, ExtractStatus(Bodies[b]))
                call == IF oneCService.kind = "service"
                        THEN ProcessN8nResponse(oneCService, outcome)
                        ELSE [result |-> NilResult, err |-> FALSE, sent |-> FALSE,
                              panic |-> FALSE]
            IN  /\ req' = [req EXCEPT ![p] = [handler |-> "webhook", method |-> "POST",
                                              readOk |-> TRUE, body |-> b]]
                /\ sentBy' = IF call.sent THEN sentBy \cup {"webhook"} ELSE sentBy
                /\ IF call.panic \/ (call.sent /\ ~call.result.Success)
                   THEN /\ pc' = [pc EXCEPT ![p] = "done"]
                        /\ resp' = [resp EXCEPT ![p] =
                                      sendJSONError(StatusInternalServerError)]
                        /\ UNCHANGED response
                   ELSE /\ response' = [response EXCEPT ![p] =
                                          ProcessingResponseOneC(r, call.result)]
                        /\ pc' = [pc EXCEPT ![p] = "w_lock"]
                        /\ UNCHANGED resp
    /\ UNCHANGED <<clientVars, posted, env, maxResponses, responses, locked, readers, clock,
                   data, appended, stored, taken, configFile, oneCReachable,
                   oneCService, originalAutoSend>>

(* handleN8nWebhook of this revision up to responsesMutex.Lock(): the      *)
(* record is built as before and, when the global is not nil,              *)
(* ProcessN8nResponse runs and its result goes into OneCStatus whatever    *)
(* the error.  A nil s.client at SendDocument panics: net/http recovers    *)
(* and the request ends without a reply.                                   *)
WebhookOneC(p, bodies, limit) ==
    /\ pc[p] = "idle"
    /\ Listening
    /\ nreq < limit
    /\ nreq' = nreq + 1
    /\ \E b \in bodies, outcome \in SendOutcomes :
         \E order \in RangeOrders(Unmarshal(Bodies[b]).data) :
            LET r == ProcessingResponse(generateSimpleID(clock),
                                        OrPlaceholder(ExtractText(Bodies[b], order)),
                                        clock, ExtractStatus(Bodies[b]))
                call == IF oneCService.kind = "service"
                        THEN ProcessN8nResponse(oneCService, outcome)
                        ELSE [result |-> NilResult, err |-> FALSE, sent |-> FALSE,
                              panic |-> FALSE]
            IN  /\ req' = [req EXCEPT ![p] = [handler |-> "webhook", method |-> "POST",
                                              readOk |-> TRUE, body |-> b]]
                /\ sentBy' = IF call.sent THEN sentBy \cup {"webhook"} ELSE sentBy
                /\ IF call.panic
                   THEN /\ pc' = [pc EXCEPT ![p] = "done"]
                        /\ UNCHANGED response
                   ELSE /\ response' = [response EXCEPT ![p] =
                                          ProcessingResponseOneC(r, call.result)]
                        /\ pc' = [pc EXCEPT ![p] = "w_lock"]
    /\ UNCHANGED <<clientVars, posted, env, maxResponses, responses, locked, readers, clock,
                   data, resp, appended, stored, taken, configFile, oneCReachable,
                   oneCService, originalAutoSend>>

(* handleOneCStatus: "not_configured" for a nil global, else GetStatus,    *)
(* which tests the connection only with the integration enabled and a      *)
(* client                                                                  *)
OneCStatus(p, limit) ==
    /\ pc[p] = "idle"
    /\ Listening
    /\ nreq < limit
    /\ nreq' = nreq + 1
    /\ req' = [req EXCEPT ![p] = [handler |-> "onec_status", method |-> "GET",
                                  readOk |-> TRUE, body |-> 0]]
    /\ \E ok \in BOOLEAN :
         resp' = [resp EXCEPT ![p] = sendJSONResponse(
            IF oneCService.kind = "nil"
            THEN [enabled |-> FALSE, connection |-> "not_configured"]
            ELSE [enabled |-> oneCService.enabled,
                  auto_send |-> oneCService.config.AutoSend,
                  connection |-> IF oneCService.enabled /\ oneCService.client
                                 THEN IF ok THEN "ok" ELSE "error"
                                 ELSE "disabled"])]
    /\ pc' = [pc EXCEPT ![p] = "done"]
    /\ UNCHANGED <<onecVars, clientVars, posted, env, maxResponses, responses, locked, readers,
                   clock, response, data, appended, stored, taken>>

(* handleOneCManualSend up to line 162 of service.go: 405 to a request     *)
(* that is not a POST, 503 with a nil global, 400 to a body that does not  *)
(* decode, 500 when SendManually finds the integration disabled; else      *)
(* originalAutoSend := s.config.AutoSend                                   *)
ManualSendBegin(p, limit) ==
    /\ pc[p] = "idle"
    /\ Listening
    /\ nreq < limit
    /\ nreq' = nreq + 1
    /\ \E method \in {"POST", "GET"}, decodes \in BOOLEAN :
         /\ method = "GET" => decodes
         /\ req' = [req EXCEPT ![p] = [handler |-> "onec_send", method |-> method,
                                       readOk |-> decodes, body |-> 0]]
         /\ IF method # "POST"
            THEN /\ resp' = [resp EXCEPT ![p] = sendJSONError(StatusMethodNotAllowed)]
                 /\ pc' = [pc EXCEPT ![p] = "done"]
                 /\ UNCHANGED originalAutoSend
            ELSE IF oneCService.kind = "nil"
            THEN /\ resp' = [resp EXCEPT ![p] = sendJSONError(StatusServiceUnavailable)]
                 /\ pc' = [pc EXCEPT ![p] = "done"]
                 /\ UNCHANGED originalAutoSend
            ELSE IF ~decodes
            THEN /\ resp' = [resp EXCEPT ![p] = sendJSONError(StatusBadRequest)]
                 /\ pc' = [pc EXCEPT ![p] = "done"]
                 /\ UNCHANGED originalAutoSend
            ELSE IF ~oneCService.enabled
            THEN /\ resp' = [resp EXCEPT ![p] = sendJSONError(StatusInternalServerError)]
                 /\ pc' = [pc EXCEPT ![p] = "done"]
                 /\ UNCHANGED originalAutoSend
            ELSE /\ originalAutoSend' = [originalAutoSend EXCEPT ![p] =
                                            oneCService.config.AutoSend]
                 /\ pc' = [pc EXCEPT ![p] = "m_set"]
                 /\ UNCHANGED resp
    /\ UNCHANGED <<clientVars, posted, env, maxResponses, responses, locked, readers, clock,
                   response, data, appended, stored, taken, configFile, oneCReachable,
                   oneCService, sentBy>>

(* service.go, line 163: s.config.AutoSend = true *)
ManualSendSet(p) ==
    /\ pc[p] = "m_set"
    /\ oneCService' = [oneCService EXCEPT !.config.AutoSend = TRUE]
    /\ pc' = [pc EXCEPT ![p] = "m_process"]
    /\ UNCHANGED <<clientVars, posted, env, maxResponses, responses, locked, readers, clock,
                   req, response, data, resp, appended, stored, taken, nreq,
                   configFile, oneCReachable, sentBy, originalAutoSend>>

(* service.go, line 168: s.ProcessN8nResponse(n8nData), which reads        *)
(* s.config.AutoSend as it is now; the reply the handler will give is      *)
(* settled here                                                            *)
ManualSendProcess(p) ==
    /\ pc[p] = "m_process"
    /\ \E outcome \in SendOutcomes :
         LET call == ProcessN8nResponse(oneCService, outcome)
         IN  /\ sentBy' = IF call.sent THEN sentBy \cup {"manual"} ELSE sentBy
             /\ resp' = [resp EXCEPT ![p] =
                           IF call.panic THEN NoReply
                           ELSE IF call.err THEN sendJSONError(StatusInternalServerError)
                           ELSE sendJSONResponse(call.result)]
    /\ pc' = [pc EXCEPT ![p] = "m_restore"]
    /\ UNCHANGED <<clientVars, posted, env, maxResponses, responses, locked, readers, clock,
                   req, response, data, appended, stored, taken, nreq, configFile,
                   oneCReachable, oneCService, originalAutoSend>>

(* service.go, lines 164-166: the deferred s.config.AutoSend =             *)
(* originalAutoSend, after which the handler replies                       *)
ManualSendRestore(p) ==
    /\ pc[p] = "m_restore"
    /\ oneCService' = [oneCService EXCEPT !.config.AutoSend = originalAutoSend[p]]
    /\ originalAutoSend' = [originalAutoSend EXCEPT ![p] = FALSE]
    /\ pc' = [pc EXCEPT ![p] = "done"]
    /\ UNCHANGED <<clientVars, posted, env, maxResponses, responses, locked, readers, clock,
                   req, response, data, resp, appended, stored, taken, nreq,
                   configFile, oneCReachable, sentBy>>

(* the bodies the webhook of this revision is given *)
OneCBodies == {1, 8}

(* the requests the specifications of this revision accept *)
MaxOneCRequests == 2

(***************************************************************************)
(* SpecOneC: the revision with 1C integration, its webhook, status and     *)
(* manual-send handlers served concurrently by MaxProcs goroutines.        *)
(***************************************************************************)
NextOneC ==
    \/ initEnvVariables
    \/ initOneCIntegration
    \/ \E p \in Procs : WebhookOneC(p, OneCBodies, MaxOneCRequests)
    \/ \E p \in Procs : OneCStatus(p, MaxOneCRequests)
    \/ \E p \in Procs : ManualSendBegin(p, MaxOneCRequests)
    \/ \E p \in Procs : ManualSendSet(p)
    \/ \E p \in Procs : ManualSendProcess(p)
    \/ \E p \in Procs : ManualSendRestore(p)
    \/ \E p \in Procs : WebhookAppend(p)
    \/ \E p \in Procs : WebhookTrim(p)
    \/ \E p \in Procs : Return(p)

SpecOneC == InitOneC /\ [][NextOneC]_vars

(***************************************************************************)
(* The browser client, script.js.  JavaScript runs one handler at a time   *)
(* up to its next await, so a step is an event handler up to its first     *)
(* await or the continuation after an await.  The elements the constructor *)
(* looks up are taken to be in the page.                                   *)
(***************************************************************************)
MaxSubmits == 3

(* 50 * 1024 * 1024 *)
maxSize == 52428800

(* what the user may type into the textarea *)
ClientMessages ==
    {<<>>, <<" ", " ">>, <<" ", "t", "o", "t", "a", "l", " ">>,
     <<"f", "i", "n", "d", " ", "t", "o", "t", "a", "l">>}

(* the files the user may pick: whether type or extension is allowed, and  *)
(* the size                                                                *)
ClientFiles ==
    {[kind |-> "file", allowed |-> a, size |-> n] :
        a \in BOOLEAN, n \in {1, maxSize, maxSize + 1}}

(* validateForm(): TRUE when it returns, FALSE when it throws *)
validateForm(m, f) ==
    /\ TrimSpace(m) # <<>>
    /\ Len(TrimSpace(m)) >= 10
    /\ f # NoFile
    /\ f.size <= maxSize

(* the user edits the textarea *)
InputMessage ==
    /\ \E m \in ClientMessages : m # message /\ message' = m
    /\ UNCHANGED <<isUploading, inFlight, submits, lastSubmit, selectedFile,
                   statusMessage, uploadCall>>
    /\ UNCHANGED <<onecVars, posted, env, maxResponses, responses, locked, readers,
                   clock, pc, req, response, data, resp, appended, stored, taken, nreq>>

(* handleFileSelect and processSelectedFile: a file of a type that is not  *)
(* allowed shows an error and is not selected                              *)
handleFileSelect ==
    /\ \E f \in ClientFiles :
          IF f.allowed
          THEN /\ selectedFile # f
               /\ selectedFile' = f
               /\ UNCHANGED statusMessage
          ELSE /\ statusMessage # "error"
               /\ statusMessage' = "error"
               /\ UNCHANGED selectedFile
    /\ UNCHANGED <<isUploading, inFlight, submits, lastSubmit, message, uploadCall>>
    /\ UNCHANGED <<onecVars, posted, env, maxResponses, responses, locked, readers,
                   clock, pc, req, response, data, resp, appended, stored, taken, nreq>>

(* showMessage: the timer that hides the message after five seconds *)
HideStatus ==
    /\ statusMessage # "none"
    /\ statusMessage' = "none"
    /\ UNCHANGED <<isUploading, inFlight, submits, lastSubmit, message, selectedFile,
                   uploadCall>>
    /\ UNCHANGED <<onecVars, posted, env, maxResponses, responses, locked, readers,
                   clock, pc, req, response, data, resp, appended, stored, taken, nreq>>

(* a handleFormSubmit without the test of this.isUploading *)
handleFormSubmitNoGuard ==
    /\ submits < MaxSubmits
    /\ submits' = submits + 1
    /\ IF ~validateForm(message, selectedFile)
       THEN /\ lastSubmit' = "invalid"
            /\ statusMessage' = "error"
            /\ UNCHANGED <<isUploading, inFlight, uploadCall>>
       ELSE /\ lastSubmit' = "started"
            /\ isUploading' = TRUE
            /\ inFlight' = inFlight + 1
            /\ uploadCall' = [at |-> "fetch", ok |-> FALSE]
            /\ UNCHANGED statusMessage
    /\ UNCHANGED <<message, selectedFile>>
    /\ UNCHANGED <<onecVars, posted, env, maxResponses, responses, locked, readers,
                   clock, pc, req, response, data, resp, appended, stored, taken, nreq>>

(* handleFormSubmit, lines 89-104, with uploadDocument up to its first     *)
(* await, lines 133-146: a submit during an upload returns at once, a form *)
(* that validateForm rejects shows the error, else isUploading is set and  *)
(* fetch('/upload') starts                                                 *)
handleFormSubmit ==
    /\ submits < MaxSubmits
    /\ submits' = submits + 1
    /\ IF isUploading
       THEN /\ lastSubmit' = "skipped"
            /\ UNCHANGED <<isUploading, inFlight, uploadCall, statusMessage>>
       ELSE IF ~validateForm(message, selectedFile)
       THEN /\ lastSubmit' = "invalid"
            /\ statusMessage' = "error"
            /\ UNCHANGED <<isUploading, inFlight, uploadCall>>
       ELSE /\ lastSubmit' = "started"
            /\ isUploading' = TRUE
            /\ inFlight' = inFlight + 1
            /\ uploadCall' = [at |-> "fetch", ok |-> FALSE]
            /\ UNCHANGED statusMessage
    /\ UNCHANGED <<message, selectedFile>>
    /\ UNCHANGED <<onecVars, posted, env, maxResponses, responses, locked, readers,
                   clock, pc, req, response, data, resp, appended, stored, taken, nreq>>

(* fetch rejects (no connection): catch and rethrow, lines 161-163, the    *)
(* finally of lines 164-167, and the catch of handleFormSubmit             *)
FetchRejects ==
    /\ uploadCall.at = "fetch"
    /\ inFlight' = inFlight - 1
    /\ isUploading' = FALSE
    /\ statusMessage' = "error"
    /\ uploadCall' = NoCall
    /\ UNCHANGED <<submits, lastSubmit, message, selectedFile>>
    /\ UNCHANGED <<onecVars, posted, env, maxResponses, responses, locked, readers,
                   clock, pc, req, response, data, resp, appended, stored, taken, nreq>>

(* fetch resolves with a response, ok or not; line 148 awaits its body *)
FetchResponds ==
    /\ uploadCall.at = "fetch"
    /\ \E ok \in BOOLEAN : uploadCall' = [at |-> "json", ok |-> ok]
    /\ UNCHANGED <<isUploading, inFlight, submits, lastSubmit, message, selectedFile,
                   statusMessage>>
    /\ UNCHANGED <<onecVars, posted, env, maxResponses, responses, locked, readers,
                   clock, pc, req, response, data, resp, appended, stored, taken, nreq>>

(* response.json() settles, lines 148-167: a body that is no JSON and a    *)
(* response that is not ok throw, else the success is shown and the form   *)
(* cleared; the finally resets isUploading on every path                   *)
JsonSettles ==
    /\ uploadCall.at = "json"
    /\ inFlight' = inFlight - 1
    /\ \E parsed \in BOOLEAN :
          IF parsed /\ uploadCall.ok
          THEN /\ statusMessage' = "success"
               /\ message' = <<>>
               /\ selectedFile' = NoFile
          ELSE /\ statusMessage' = "error"
               /\ UNCHANGED <<message, selectedFile>>
    /\ isUploading' = FALSE
    /\ uploadCall' = NoCall
    /\ UNCHANGED <<submits, lastSubmit>>
    /\ UNCHANGED <<onecVars, posted, env, maxResponses, responses, locked, readers,
                   clock, pc, req, response, data, resp, appended, stored, taken, nreq>>

(***************************************************************************)
(* SpecClient: one page and its user.                                      *)
(***************************************************************************)
InitClient == Init /\ env = <<>>

NextClient ==
    \/ InputMessage
    \/ handleFileSelect
    \/ HideStatus
    \/ handleFormSubmit
    \/ FetchRejects
    \/ FetchResponds
    \/ JsonSettles

SpecClient == InitClient /\ [][NextClient]_vars

TypeOK ==
    /\ env \in EnvValues
    /\ maxResponses \in Capacities
    /\ locked \in BOOLEAN
    /\ readers \in 0..MaxProcs
    /\ clock \in 0..MaxClock
    /\ nreq \in 0..MaxRequests

(***************************************************************************)
(* Properties.                                                             *)
(***************************************************************************)
Min(a, b) == IF a < b THEN a ELSE b

(* the last Min(k, maxResponses) of the first k records appended *)
Window(k) ==
    LET m == Min(k, maxResponses)
    IN  [i \in 1..m |-> appended[k - m + i]]

(* goroutine p serves a webhook POST whose body was read *)
Ingesting(p) ==
    /\ pc[p] # "idle"
    /\ req[p].handler = "webhook"
    /\ req[p].method = "POST"
    /\ req[p].readOk

(* goroutine p serves a retrieval and holds its copy *)
HoldsSnapshot(p) == pc[p] = "g_runlock"

(* goroutine p has released the read lock and has yet to encode its copy *)
Replying(p) == pc[p] = "g_reply"

(* goroutine p has replied to a retrieval *)
Retrieved(p) == pc[p] = "done" /\ req[p].handler = "results"

(* goroutine p serves a retrieval and has taken its copy *)
HasSnapshot(p) == HoldsSnapshot(p) \/ Replying(p) \/ Retrieved(p)

(* the sequence the retrieval of p returns *)
Snapshot(p) == IF Retrieved(p) THEN resp[p].data ELSE data[p]

(* C1: once an ingestion has completed and no append is under way, the     *)
(* history holds at most maxResponses records.                             *)
C1_LengthWithinCapacity ==
    (~locked /\ appended # <<>>) => Len(responses) <= maxResponses

(* an ingestion overflowed a history of capacity 2 and completed *)
C1_Witness ==
    /\ ~locked
    /\ maxResponses = 2
    /\ Len(appended) = 3
    /\ Len(responses) = 2
    /\ \E p \in Procs : Ingesting(p) /\ pc[p] = "done" /\ resp[p].code = StatusOK

(* C2: a copy taken after k appends is the last Min(k, maxResponses)       *)
(* records appended, oldest first.                                         *)
C2_SnapshotIsLastN ==
    \A p \in Procs : HoldsSnapshot(p) => data[p] = Window(Len(appended))

(* capacity 1, two different records appended: the copy holds the second   *)
(* and not the first                                                       *)
C2_Witness ==
    \E p \in Procs :
        /\ HoldsSnapshot(p)
        /\ maxResponses = 1
        /\ Len(appended) = 2
        /\ data[p] = <<appended[2]>>
        /\ appended[1] # appended[2]

(* C3: whatever the interleaving, a retrieval returns no more than         *)
(* maxResponses records (a capacity, so not negative), and what it returns *)
(* is the history as some number of completed appends left it: never the   *)
(* state between an append and its trim, and only whole records.           *)
C3_SnapshotIsCommittedState ==
    \A p \in Procs :
        HasSnapshot(p) =>
            /\ maxResponses >= 0 => Len(Snapshot(p)) <= maxResponses
            /\ \E k \in 0..Len(appended) : Snapshot(p) = Window(k)

(* a retrieval has returned a full history while an ingestion stands       *)
(* between its append and its trim with one record too many                *)
C3_Witness ==
    \E p, q \in Procs :
        /\ Retrieved(p)
        /\ maxResponses >= 1
        /\ Len(resp[p].data) = maxResponses
        /\ pc[q] = "w_trim"
        /\ Len(responses) = maxResponses + 1

(* C4: the timestamps of the history never decrease along the sequence.    *)
C4_TimestampsNonDecreasing ==
    \A i, j \in 1..Len(responses) :
        i < j => responses[i].Timestamp <= responses[j].Timestamp

(* C5: every record ever appended has an id of its own, and every id       *)
(* starts with res_.                                                       *)
C5_IdsUnique ==
    /\ \A i, j \in 1..Len(appended) : i # j => appended[i].ID # appended[j].ID
    /\ \A i \in 1..Len(appended) : HasPrefix(appended[i].ID, IdPrefix)

(***************************************************************************)
(* Properties of the normalisation, checked under SpecSeq, where the one   *)
(* goroutine's record is the last one appended.                            *)
(***************************************************************************)
BodyOf(p) == Bodies[req[p].body]

LastAppended == appended[Len(appended)]

(* goroutine p serves a webhook POST and has appended its record *)
Stored(p) == Ingesting(p) /\ stored[p] = 1

(* the body of p is a JSON object *)
IsObject(p) == Ingesting(p) /\ BodyOf(p).kind = "object"

(* key maps to a non-empty string in the object f *)
Usable(f, key) ==
    /\ key \in DOMAIN f
    /\ f[key].t = "string"
    /\ Len(f[key].s) > 0

(* C6: no record of the history, and no record ever appended, has an empty *)
(* text; a body whose normalisation yields no text is stored with the      *)
(* placeholder.                                                            *)
C6_TextNeverEmpty ==
    /\ \A i \in 1..Len(responses) : responses[i].Text # <<>>
    /\ \A i \in 1..Len(appended) : appended[i].Text # <<>>
    /\ \A p \in Procs :
         (/\ Stored(p)
          /\ \A o \in RangeOrders(Unmarshal(BodyOf(p)).data) :
                ExtractText(BodyOf(p), o) = <<>>)
         => LastAppended.Text = Placeholder

(* the empty body has been stored with the placeholder *)
C6_Witness ==
    \E p \in Procs :
        /\ Stored(p)
        /\ pc[p] = "done"
        /\ req[p].body = 2
        /\ responses # <<>>
        /\ responses[Len(responses)].Text = Placeholder

ValidRecord(r) ==
    /\ HasPrefix(r.ID, IdPrefix)
    /\ Len(r.ID) > Len(IdPrefix)
    /\ r.Text # <<>>
    /\ r.Status # <<>>

(* C7: a POST whose body was read, whatever the body, appends exactly one  *)
(* valid record and is never answered with an error; it is answered with   *)
(* the success acknowledgment (for a capacity that is not negative: a      *)
(* negative one makes the trim panic after the append).                    *)
C7_IngestionTotal ==
    \A p \in Procs :
        /\ stored[p] <= 1
        /\ (Ingesting(p) /\ pc[p] = "done") =>
              /\ stored[p] = 1
              /\ ValidRecord(LastAppended)
              /\ resp[p].status # "error"
              /\ resp[p].code \notin {StatusBadRequest, StatusMethodNotAllowed}
              /\ maxResponses >= 0 =>
                    resp[p].code = StatusOK /\ resp[p].status = "success"

(* bytes that are not JSON have been stored and acknowledged *)
C7_Witness ==
    \E p \in Procs :
        /\ Ingesting(p)
        /\ pc[p] = "done"
        /\ BodyOf(p).kind = "other"
        /\ BodyOf(p).raw # <<>>
        /\ stored[p] = 1
        /\ resp[p].code = StatusOK
        /\ LastAppended.Text = BodyOf(p).raw

(* C8: when the object has a non-empty string under text, the record's     *)
(* text is that string, whatever the other keys.                           *)
C8_TextFieldVerbatim ==
    \A p \in Procs :
        (IsObject(p) /\ Usable(BodyOf(p).fields, KText)) =>
            /\ response[p].Text = BodyOf(p).fields[KText].s
            /\ Stored(p) => LastAppended.Text = BodyOf(p).fields[KText].s

(* {"text":"a","message":"b"} has been stored as a *)
C8_Witness ==
    \E p \in Procs :
        /\ Stored(p)
        /\ pc[p] = "done"
        /\ IsObject(p)
        /\ Usable(BodyOf(p).fields, KText)
        /\ Usable(BodyOf(p).fields, KMessage)
        /\ BodyOf(p).fields[KMessage].s # BodyOf(p).fields[KText].s
        /\ LastAppended.Text = <<"a">>

(* C9: when text is absent, empty or not a string and message is a         *)
(* non-empty string, the record's text is the message.                     *)
C9_MessageFallback ==
    \A p \in Procs :
        (/\ IsObject(p)
         /\ ~Usable(BodyOf(p).fields, KText)
         /\ Usable(BodyOf(p).fields, KMessage)) =>
            /\ response[p].Text = BodyOf(p).fields[KMessage].s
            /\ Stored(p) => LastAppended.Text = BodyOf(p).fields[KMessage].s

(* {"text":"","message":"b","status":"error"} has been stored as b *)
C9_Witness ==
    \E p \in Procs :
        /\ Stored(p)
        /\ pc[p] = "done"
        /\ IsObject(p)
        /\ KText \in DOMAIN BodyOf(p).fields
        /\ BodyOf(p).fields[KText] = VStr(<<>>)
        /\ LastAppended.Text = <<"b">>

(* the arrangements of the elements of a finite set in a sequence *)
Orderings(S) ==
    {o \in [1..Cardinality(S) -> S] :
        \A i, j \in 1..Cardinality(S) : i # j => o[i] # o[j]}

RECURSIVE SplitLines(_)
(* the lines of a text *)
SplitLines(s) ==
    IF \A i \in 1..Len(s) : s[i] # NL THEN <<s>>
    ELSE LET i == CHOOSE i \in 1..Len(s) : s[i] = NL /\ \A j \in 1..(i - 1) : s[j] # NL
         IN  <<SubSeq(s, 1, i - 1)>> \o SplitLines(SubSeq(s, i + 1, Len(s)))

(* the object of p has neither a usable text nor a usable message *)
NoCanonicalText(p) ==
    /\ IsObject(p)
    /\ ~Usable(BodyOf(p).fields, KText)
    /\ ~Usable(BodyOf(p).fields, KMessage)

(* the keys of f outside the reserved set *)
OtherKeys(f) == DOMAIN f \ excludeFields

(* the keys of f outside the reserved set whose value is not "" *)
EntryKeys(f) == {k \in OtherKeys(f) : f[k] # VStr(<<>>)}

(* C10 as stated: without a usable text or message but with other fields,  *)
(* the text has exactly one line "<key>: <value>" for every field whose    *)
(* key is not reserved, and no line for a reserved key.                    *)
C10_OneLinePerField ==
    \A p \in Procs :
        (NoCanonicalText(p) /\ OtherKeys(BodyOf(p).fields) \ {KText, KMessage} # {}) =>
            LET f == BodyOf(p).fields
                lines == SplitLines(response[p].Text)
            IN  /\ Len(lines) = Cardinality(OtherKeys(f))
                /\ \A k \in OtherKeys(f) :
                      Cardinality({i \in 1..Len(lines) : lines[i] = FormatPart(k, f[k])}) = 1
                /\ \A i \in 1..Len(lines) : \A k \in excludeFields :
                      ~HasPrefix(lines[i], k \o <<":", " ">>)

(* C10 as amended: without a usable text or message, the text is the       *)
(* newline-joined list of exactly one entry "<key>: <value>" for every     *)
(* field whose key is not reserved and whose value is not the empty        *)
(* string, in some order, with no entry for a reserved key; when no field  *)
(* gives an entry the text is the placeholder.                             *)
C10_OneEntryPerNonEmptyField ==
    \A p \in Procs :
        NoCanonicalText(p) =>
            LET f == BodyOf(p).fields
                expected == {Join([i \in 1..Len(o) |-> FormatPart(o[i], f[o[i]])], <<NL>>) :
                                o \in Orderings(EntryKeys(f))}
            IN  /\ IF EntryKeys(f) = {}
                   THEN response[p].Text = Placeholder
                   ELSE response[p].Text \in expected
                /\ Stored(p) => LastAppended.Text = response[p].Text

(* {"id":"x","n":1.5,"note":""} has been stored as the one line n: 1.50 *)
C10_Witness ==
    \E p \in Procs :
        /\ Stored(p)
        /\ pc[p] = "done"
        /\ NoCanonicalText(p)
        /\ DOMAIN BodyOf(p).fields = {KId, KN, KNote}
        /\ LastAppended.Text = <<"n", ":", " ", "1", ".", "5", "0">>

(* C11 as stated: a body that is not a JSON object (bytes that are not     *)
(* JSON, the empty body, JSON of another top-level type) is stored with    *)
(* the body's bytes as text and with status completed.                     *)
C11_RawBodyVerbatim ==
    \A p \in Procs :
        (Stored(p) /\ BodyOf(p).kind # "object") =>
            /\ LastAppended.Text = BodyOf(p).raw
            /\ LastAppended.Status = Completed

(* C11 as amended: a body that json.Unmarshal rejects is stored with its   *)
(* bytes as text when it has any and with the placeholder when it is       *)
(* empty; the body null, which json.Unmarshal accepts, is stored with the  *)
(* placeholder; the status is completed in each case.                      *)
C11_RawBodyOrPlaceholder ==
    \A p \in Procs :
        (Ingesting(p) /\ BodyOf(p).kind # "object") =>
            LET expected == IF BodyOf(p).kind = "other" /\ BodyOf(p).raw # <<>>
                            THEN BodyOf(p).raw
                            ELSE Placeholder
            IN  /\ response[p].Text = expected
                /\ response[p].Status = Completed
                /\ Stored(p) => /\ LastAppended.Text = expected
                                /\ LastAppended.Status = Completed

(* the JSON array [1] has been stored as the three characters of its body *)
C11_Witness ==
    \E p \in Procs :
        /\ Stored(p)
        /\ pc[p] = "done"
        /\ BodyOf(p).kind = "other"
        /\ Unmarshal(BodyOf(p)).err
        /\ LastAppended.Text = <<"[", "1", "]">>
        /\ LastAppended.Status = Completed

(* the status the object f asks for *)
StatusAsked(f) == IF Usable(f, KStatus) THEN f[KStatus].s ELSE Completed

(* C12: the record's status is the body's status when that is a non-empty  *)
(* string and completed otherwise, whichever way the text was found, the   *)
(* placeholder included.                                                   *)
C12_StatusFromPayload ==
    \A p \in Procs :
        Ingesting(p) =>
            LET expected == IF IsObject(p) THEN StatusAsked(BodyOf(p).fields)
                            ELSE Completed
            IN  /\ response[p].Status = expected
                /\ Stored(p) => LastAppended.Status = expected

(* {"status":"error"} has been stored with the placeholder and the status  *)
(* error                                                                   *)
C12_Witness ==
    \E p \in Procs :
        /\ Stored(p)
        /\ pc[p] = "done"
        /\ IsObject(p)
        /\ DOMAIN BodyOf(p).fields = {KStatus}
        /\ LastAppended.Text = Placeholder
        /\ LastAppended.Status = SError

(* C13: the sequence a retrieval returns is the history as it was when the *)
(* copy was taken, whatever has been appended and evicted since.           *)
C13_SnapshotIndependent ==
    \A p \in Procs : HasSnapshot(p) => Snapshot(p) = Window(taken[p])

(* a retrieval has returned the one record of a history of capacity 1      *)
(* after a later ingestion has evicted that record                         *)
C13_Witness ==
    \E p \in Procs :
        /\ Retrieved(p)
        /\ maxResponses = 1
        /\ taken[p] = 1
        /\ Len(appended) = 2
        /\ ~locked
        /\ appended[1] # appended[2]
        /\ responses = <<appended[2]>>
        /\ resp[p].data = <<appended[1]>>

(* C14: two retrievals whose copies were taken with no append in between   *)
(* return equal sequences.                                                 *)
C14_ReadIdempotent ==
    \A p, q \in Procs :
        (HasSnapshot(p) /\ HasSnapshot(q) /\ taken[p] = taken[q]) =>
            Snapshot(p) = Snapshot(q)

(* two retrievals have returned the same record, the clock having advanced *)
(* between the append and the second copy                                  *)
C14_Witness ==
    \E p, q \in Procs :
        /\ p # q
        /\ Retrieved(p)
        /\ HasSnapshot(q)
        /\ taken[p] = 1
        /\ taken[q] = 1
        /\ Len(Snapshot(q)) = 1
        /\ Snapshot(p) = Snapshot(q)
        /\ Snapshot(q)[1].Timestamp < clock

(***************************************************************************)
(* Properties of the handlers as a whole, checked under SpecOps.           *)
(***************************************************************************)
(* goroutine p takes a step *)
Moves(p) == pc'[p] # pc[p]

(* goroutine p is inside the critical section of an ingestion or enters it *)
Writing(p) == Ingesting(p) /\ pc[p] \in {"w_lock", "w_trim"}

(* C15: no step of a retrieval, of an upload, of a health check or of the  *)
(* home page changes the history: a step that changes it is a step of an   *)
(* ingestion at its append or at its trim.                                 *)
C15_OnlyIngestionWrites ==
    [][/\ responses' # responses => \E p \in Procs : Moves(p) /\ Writing(p)
       /\ \A p \in Procs :
            (Moves(p) /\ (req[p].handler \in {"results", "upload", "health", "home"}
                          \/ req'[p].handler \in {"results", "upload", "health", "home"}))
            => responses' = responses]_vars

(* a retrieval has returned the record an earlier ingestion stored, and    *)
(* the history still holds that record                                     *)
C15_Witness ==
    \E p \in Procs :
        /\ Retrieved(p)
        /\ Len(appended) = 1
        /\ resp[p].data = appended
        /\ responses = appended

(* the fields of f but for id and timestamp *)
WithoutIdAndTimestamp(f) == [k \in DOMAIN f \ {KId, KTimestamp} |-> f[k]]

(* the texts that the body b may be stored with *)
TextsOf(b) ==
    {OrPlaceholder(ExtractText(Bodies[b], o)) :
        o \in RangeOrders(Unmarshal(Bodies[b]).data)}

(* C16: the id of a record is res_ and a reading of the server's clock,    *)
(* its timestamp is a later or equal reading of that clock, whatever id    *)
(* and timestamp the body has, and a body that differs from the one stored *)
(* in id and timestamp only is stored with the same text and status.       *)
C16_IdAndTimestampAssigned ==
    \A p \in Procs :
        (Stored(p) /\ IsObject(p)) =>
            LET f == BodyOf(p).fields
            IN  /\ LastAppended.Timestamp \in 0..clock
                /\ \E c \in 0..LastAppended.Timestamp :
                      LastAppended.ID = generateSimpleID(c)
                /\ \A b \in BodyIds :
                      (/\ Bodies[b].kind = "object"
                       /\ WithoutIdAndTimestamp(Bodies[b].fields) = WithoutIdAndTimestamp(f))
                      => /\ LastAppended.Text \in TextsOf(b)
                         /\ LastAppended.Status = ExtractStatus(Bodies[b])

(* {"id":"res_9","timestamp":7,"n":1.5,"note":""} has been stored at clock  *)
(* reading 1 as res_1 with the text that {"id":"x","n":1.5,"note":""} gets  *)
C16_Witness ==
    \E p \in Procs :
        /\ Stored(p)
        /\ pc[p] = "done"
        /\ IsObject(p)
        /\ DOMAIN BodyOf(p).fields = {KId, KTimestamp, KN, KNote}
        /\ BodyOf(p).fields[KId].s # LastAppended.ID
        /\ LastAppended.ID = <<"r", "e", "s", "_", "1">>
        /\ LastAppended.Text \in TextsOf(8)

(* the server has started and serves requests *)
Serving == \A p \in Procs : pc[p] \notin {"boot", "exited"}

(* C17: once the server serves requests maxResponses is what the loader    *)
(* made of MAX_RESPONSES, 20 when it is unset, and no step changes it.     *)
C17_CapacityFixed ==
    /\ [](Serving => maxResponses = IF env = <<>> THEN 20 ELSE Atoi(env).n)
    /\ [][Serving => maxResponses' = maxResponses]_vars

(* with MAX_RESPONSES unset an ingestion has run to its end, and a         *)
(* retrieval after it, with maxResponses still 20                          *)
C17_Witness ==
    /\ env = <<>>
    /\ maxResponses = 20
    /\ Len(appended) = 1
    /\ \E p \in Procs : Retrieved(p) /\ resp[p].data = appended

(* goroutine p serves a webhook request that is not a POST *)
Rejected(p) == req[p].handler = "webhook" /\ req[p].method # "POST"

(* C18: a webhook request that is not a POST is answered 405 at once and   *)
(* no step of its handling changes the history or appends a record.        *)
C18_WrongMethodRejected ==
    [][\A p \in Procs :
         /\ Rejected(p)' => /\ pc'[p] = "done"
                            /\ resp'[p].code = StatusMethodNotAllowed
                            /\ resp'[p].status = "error"
         /\ (Moves(p) /\ (Rejected(p) \/ Rejected(p)'))
               => responses' = responses /\ appended' = appended]_vars

(* a GET to the webhook has been answered 405 with the record of an        *)
(* earlier ingestion still in the history                                  *)
C18_Witness ==
    \E p \in Procs :
        /\ Rejected(p)
        /\ resp[p].code = StatusMethodNotAllowed
        /\ Len(appended) = 1
        /\ responses = appended

(* C19: an ingestion appends its record at the tail, and when it leaves    *)
(* the critical section the history is one longer than it found it if it   *)
(* found fewer than maxResponses records and as long as it found it if it  *)
(* found maxResponses records, with its record last when maxResponses is   *)
(* at least 1; the handler then answers 200 success.                       *)
C19_AppendsOneAtTail ==
    [][\A p \in Procs :
         /\ (pc[p] = "w_lock" /\ pc'[p] = "w_trim")
               => responses' = Append(responses, response[p])
         /\ (pc[p] = "w_trim" /\ pc'[p] = "done" /\ maxResponses >= 0)
               => LET found == Len(responses) - 1
                  IN  /\ found <= maxResponses
                      /\ found < maxResponses => Len(responses') = found + 1
                      /\ found = maxResponses => Len(responses') = maxResponses
                      /\ maxResponses >= 1 => responses'[Len(responses')] = response[p]
                      /\ resp'[p].code = StatusOK
                      /\ resp'[p].status = "success"]_vars

(* a full history of capacity 1 has taken a second record in place of the  *)
(* first and the handler has answered 200                                  *)
C19_Witness ==
    \E p \in Procs :
        /\ Stored(p)
        /\ pc[p] = "done"
        /\ resp[p].code = StatusOK
        /\ maxResponses = 1
        /\ Len(appended) = 2
        /\ appended[1] # appended[2]
        /\ responses = <<response[p]>>

(* the last Len(e) characters of name are e but for the case of letters *)
EndsWithFold(name, e) ==
    /\ Len(name) >= Len(e)
    /\ ToLower(SubSeq(name, Len(name) - Len(e) + 1, Len(name))) = e

(* goroutine p serves an upload that came as far as the test of the name *)
NameTested(p) ==
    /\ req[p].handler = "upload"
    /\ req[p].upload.method = "POST"
    /\ req[p].upload.formOk
    /\ TrimSpace(req[p].upload.message) # <<>>
    /\ req[p].upload.hasFile

(* C20: an upload is turned away for its file type exactly when the name   *)
(* does not end, whatever the case of its letters, in .pdf, .jpg, .jpeg or *)
(* .png: the empty name and a name without extension are turned away.      *)
C20_FileTypeByExtension ==
    \A p \in Procs :
        NameTested(p) =>
            LET name == FileNames[req[p].upload.name]
                valid == \E e \in {<<".", "p", "d", "f">>, <<".", "j", "p", "g">>,
                                   <<".", "j", "p", "e", "g">>, <<".", "p", "n", "g">>} :
                            EndsWithFold(name, e)
            IN  /\ valid <=> isValidFileType(name)
                /\ valid <=> resp[p].code # StatusBadRequest
                /\ name = <<>> => resp[p].code = StatusBadRequest

(* the upload of t.JpG has been accepted and forwarded *)
C20_Witness ==
    \E p \in Procs :
        /\ NameTested(p)
        /\ FileNames[req[p].upload.name] = <<"t", ".", "J", "p", "G">>
        /\ posted[p] = 1
        /\ resp[p].code = StatusOK

(* the global holds a service whose integration is disabled *)
Disabled == oneCService.kind = "service" /\ ~oneCService.enabled

(* goroutine p serves a webhook of the revision with 1C and is past        *)
(* ProcessN8nResponse                                                      *)
Processed(p) ==
    /\ Ingesting(p)
    /\ pc[p] \in {"w_lock", "w_trim"} \/ (pc[p] = "done" /\ resp[p] # NoReply)

(* C21: with the integration disabled ProcessN8nResponse returns, whatever *)
(* 1C would answer, a result that is not nil and has Success true, and a   *)
(* nil error, and SendDocument is never called: not by a webhook, whose    *)
(* record carries that result, and not by a manual send.                   *)
C21_DisabledSkipsSend ==
    Disabled =>
        /\ \A outcome \in SendOutcomes :
              LET call == ProcessN8nResponse(oneCService, outcome)
              IN  /\ call.result # NilResult
                  /\ call.result.Success
                  /\ ~call.err
                  /\ ~call.sent
                  /\ ~call.panic
        /\ sentBy = {}
        /\ \A p \in Procs :
              Processed(p) =>
                  /\ response[p].OneCStatus # NilResult
                  /\ response[p].OneCStatus.Success

(* a webhook was served by a service that has a client and AutoSend set    *)
(* but was disabled by the failed connection test: its record is stored    *)
(* with a successful integration result and nothing was sent               *)
C21_Witness ==
    \E p \in Procs :
        /\ Disabled
        /\ oneCService.client
        /\ oneCService.config.AutoSend
        /\ Processed(p)
        /\ pc[p] = "done"
        /\ resp[p].code = StatusOK
        /\ response[p].OneCStatus.Success
        /\ response[p] \in {responses[i] : i \in 1..Len(responses)}
        /\ sentBy = {}

(* C22: once initOneCIntegration has returned, a missing configuration     *)
(* file has given a service with the default configuration and the         *)
(* integration disabled, and an enabled configuration whose connection     *)
(* test failed has given a service with the integration disabled; neither  *)
(* is an error of NewOneCService.                                          *)
C22_ConstructorTolerates1C ==
    Listening =>
        /\ configFile.kind = "missing" =>
              /\ ~NewOneCService(configFile, oneCReachable).err
              /\ oneCService.kind = "service"
              /\ oneCService.config = IntegrationConfig(FALSE, FALSE)
              /\ ~oneCService.enabled
        /\ (configFile.kind = "config" /\ configFile.config.Enabled /\ ~oneCReachable) =>
              /\ ~NewOneCService(configFile, oneCReachable).err
              /\ oneCService.kind = "service"
              /\ ~oneCService.enabled

(* the status handler reports a disabled integration for an enabled        *)
(* configuration whose 1C did not answer                                   *)
C22_Witness ==
    \E p \in Procs :
        /\ configFile.kind = "config"
        /\ configFile.config.Enabled
        /\ ~oneCReachable
        /\ pc[p] = "done"
        /\ req[p].handler = "onec_status"
        /\ resp[p].data.connection = "disabled"
        /\ ~resp[p].data.enabled

(* C23: a service that NewOneCService returned with the integration        *)
(* enabled has a client, so ProcessN8nResponse does not find s.client nil  *)
(* at SendDocument, whatever AutoSend is by then, and no request ends in   *)
(* that panic.                                                             *)
C23_EnabledHasClient ==
    /\ (oneCService.kind = "service" /\ oneCService.enabled) =>
          /\ oneCService.client
          /\ \A outcome \in SendOutcomes :
                ~ProcessN8nResponse(oneCService, outcome).panic
    /\ \A p \in Procs : pc[p] \in {"done", "m_restore"} => resp[p] # NoReply

(* an enabled service with AutoSend set has sent the document of a webhook *)
(* through its client and 1C created it                                    *)
C23_Witness ==
    \E p \in Procs :
        /\ oneCService.kind = "service"
        /\ oneCService.enabled
        /\ configFile.kind = "config"
        /\ configFile.config.AutoSend
        /\ Processed(p)
        /\ pc[p] = "done"
        /\ response[p].OneCStatus.OneCRef = "ref"
        /\ "webhook" \in sentBy

(* goroutine p has answered an upload *)
Uploaded(p) == pc[p] = "done" /\ req[p].handler = "upload"

(* C24: an upload is answered by the first check it fails, in the order    *)
(* method (405), form, message, file, file type (400 each), whatever later *)
(* checks it would fail as well; a rejected upload is not forwarded; an    *)
(* upload that passes every check is forwarded once, and it is answered    *)
(* 200 exactly when n8n answered with a status from 200 to 299, else 500.  *)
C24_UploadChecksInOrder ==
    \A p \in Procs :
        Uploaded(p) =>
            LET u == req[p].upload
                isPost == u.method = "POST"
                hasMessage == TrimSpace(u.message) # <<>>
                passes == /\ isPost
                          /\ u.formOk
                          /\ hasMessage
                          /\ u.hasFile
                          /\ isValidFileType(FileNames[u.name])
            IN  /\ ~isPost =>
                      resp[p].code = StatusMethodNotAllowed /\ resp[p].message = "method"
                /\ (isPost /\ ~u.formOk) =>
                      resp[p].code = StatusBadRequest /\ resp[p].message = "form"
                /\ (isPost /\ u.formOk /\ ~hasMessage) =>
                      resp[p].code = StatusBadRequest /\ resp[p].message = "message"
                /\ (isPost /\ u.formOk /\ hasMessage /\ ~u.hasFile) =>
                      resp[p].code = StatusBadRequest /\ resp[p].message = "file"
                /\ (isPost /\ u.formOk /\ hasMessage /\ u.hasFile /\ ~passes) =>
                      resp[p].code = StatusBadRequest /\ resp[p].message = "type"
                /\ ~passes => posted[p] = 0
                /\ passes =>
                      /\ posted[p] = 1
                      /\ resp[p].code \in {StatusOK, StatusInternalServerError}
                      /\ resp[p].code = StatusOK <=> u.n8n \in 200..299
                /\ resp[p].code = StatusOK => resp[p].status = "success"
                /\ resp[p].code # StatusOK => resp[p].status = "error"

(* a.pdf passed every check and was forwarded, n8n answered 300 and the    *)
(* upload was answered 500                                                 *)
C24_Witness ==
    \E p \in Procs :
        /\ Uploaded(p)
        /\ req[p].upload.method = "POST"
        /\ req[p].upload.hasFile
        /\ FileNames[req[p].upload.name] = <<"a", ".", "p", "d", "f">>
        /\ req[p].upload.n8n = 300
        /\ posted[p] = 1
        /\ resp[p].code = StatusInternalServerError

(* no ingestion is between its append and its trim *)
NoAppendInProgress == \A p \in Procs : pc[p] # "w_trim"

(* C25: k deliveries of one payload leave Min(k, maxResponses) records in  *)
(* the history, and no two of them have the same id.                       *)
C25_EachDeliveryOwnRecord ==
    (NoAppendInProgress /\ maxResponses >= 0) =>
        /\ Len(responses) = Min(Len(appended), maxResponses)
        /\ \A i \in 1..Len(appended) : appended[i].Text = appended[1].Text
        /\ \A i, j \in 1..Len(responses) :
              i # j => responses[i].ID # responses[j].ID

(* C26: in the revision with 1C every webhook POST whose body was read     *)
(* ends with its record appended and the answer 200 success, whatever      *)
(* ProcessN8nResponse returned; with a service the record carries the      *)
(* result, and a result without Success comes from a SendDocument call.    *)
C26_IntegrationFailureStillStored ==
    \A p \in Procs :
        (Ingesting(p) /\ pc[p] = "done") =>
            /\ stored[p] = 1
            /\ resp[p] = sendJSONResponse(<<>>)
            /\ \E i \in 1..Len(appended) : appended[i] = response[p]
            /\ oneCService.kind = "service" <=> response[p].OneCStatus # NilResult
            /\ oneCService.kind = "service" =>
                  (~response[p].OneCStatus.Success => "webhook" \in sentBy)

(* SendDocument failed with an error for a webhook: its record is in the   *)
(* history with the failed result and the webhook was answered 200         *)
C26_Witness ==
    \E p \in Procs :
        /\ Ingesting(p)
        /\ pc[p] = "done"
        /\ oneCService.kind = "service"
        /\ response[p].OneCStatus = IntegrationResult(FALSE, "error", "")
        /\ responses = <<response[p]>>
        /\ resp[p].code = StatusOK

(* C27: whatever capacity initEnvVariables accepted, the write lock is     *)
(* held only by an ingestion that is between its append and its unlock:    *)
(* an ingestion that has ended has released it.                            *)
C27_WriteLockReleased ==
    locked => \E p \in Procs : pc[p] = "w_trim"

(* no SendManually call is between its read of AutoSend and its return *)
NoManualSendRunning ==
    \A p \in Procs : pc[p] \notin {"m_set", "m_process", "m_restore"}

(* C28: once every SendManually call has returned, config.AutoSend is what *)
(* the configuration file set it to.                                       *)
C28_AutoSendRestored ==
    (oneCService.kind = "service" /\ NoManualSendRunning) =>
        oneCService.config.AutoSend = loadConfig(configFile).config.AutoSend

(* C29: with AutoSend configured false SendDocument is never called for a  *)
(* webhook.                                                                *)
C29_WebhookNeverSends ==
    (oneCService.kind = "service" /\ ~loadConfig(configFile).config.AutoSend) =>
        "webhook" \notin sentBy

(* C30: at most one upload is in flight, and only while isUploading is     *)
(* set; with no uploadDocument() running isUploading is false and nothing  *)
(* is in flight, however the upload ended; a submit during an upload       *)
(* starts nothing, and a submit that validateForm rejects leaves           *)
(* isUploading false.                                                      *)
C30_OneUploadAtATime ==
    /\ [](/\ inFlight \in {0, 1}
          /\ inFlight = 1 => isUploading
          /\ uploadCall = NoCall => (~isUploading /\ inFlight = 0))
    /\ [][submits' = submits + 1 =>
             /\ isUploading => (inFlight' = inFlight /\ uploadCall' = uploadCall /\ isUploading')
             /\ (~isUploading /\ ~validateForm(message, selectedFile)) =>
                   (~isUploading' /\ inFlight' = 0 /\ uploadCall' = NoCall)
             /\ inFlight' > inFlight =>
                   (~isUploading /\ validateForm(message, selectedFile))]_vars

(* the last submit came while an upload was in flight and started nothing  *)
C30_Witness ==
    /\ lastSubmit = "skipped"
    /\ inFlight = 1
    /\ isUploading
    /\ submits >= 2

====
